---------------------------- MODULE Spec2Model ----------------------------
(***************************************************************************)
(* Model of the automated capture orchestrator of EMG-Classifier-RT:       *)
(*   - GestureSessionController   (system_data/session_controller.py)      *)
(*   - GestureDatasetManager      (Toma_de_datos/ and system_data/)        *)
(*   - EMGProcessor, EMGMonitorWorker, AutoEMGApp (Toma_de_datos/)         *)
(*                                                                         *)
(* Time is the wall clock time.time(), counted in units of 1/TicksPerSec   *)
(* second.  Every handler runs to completion on the thread that owns it,   *)
(* so each handler is one action.                                          *)
(***************************************************************************)
EXTENDS Integers, Sequences, FiniteSets, TLC

(***************************************************************************)
(* Bounds of the model.                                                    *)
(***************************************************************************)
TicksPerSec == 1          \* clock units per second
MaxTime     == 2          \* the clock stops advancing here
MaxCycles   == 1          \* largest series_count / user_cycles drawn
MaxDuration == 1          \* largest valid duration_per_gesture drawn (s)
MaxRest     == 1          \* largest rest_time drawn (s)
MaxSamples  == 1          \* samples a dataset may hold
DsMaxSamples == 2         \* samples a dataset driven by a caller may hold
MaxFrames   == 1          \* valid frames the device sends
MaxInFlight == 1          \* data_ready signals queued to the main thread
SchedMaxTime == 8         \* the clock of an undisturbed session stops here
AppMaxTime  == 10         \* the clock of the capture application stops here
SchedCycles == 2          \* largest cycle count of an undisturbed session
PauseDuration == 2        \* duration_per_gesture of a session that is paused (s)
MaxPauses   == 2          \* stays in RECORDING that a pause may end
OrdFrames   == 2          \* valid frames the device sends while order is observed
OrdSamples  == 2          \* samples the dataset may hold while order is observed
OrdInFlight == 2          \* data_ready signals queued while order is observed
QueueFrames == 102        \* valid frames the device sends to fill the queue
MaxOrphans  == 1          \* reading threads that outlive a disconnect
QueueHeld   == 96         \* valid frames already queued when observation starts
DoneMaxTime == 17         \* the clock of a session that is run to its end stops here
LoggerMaxFiles == 3       \* CSV files the serial logger opens
LoggerMaxRows == 2        \* data rows the serial logger writes

(***************************************************************************)
(* Program constants.                                                      *)
(***************************************************************************)
MinGestureDuration == 1   \* configure_session: duration_per_gesture < 1
MaxGestureDuration == 60  \* configure_session: duration_per_gesture > 60
RestingSeconds     == 1   \* _update_resting: elapsed >= 1.0
LivenessSeconds    == 5   \* is_sensor_connected: <= 5.0
QueueCapacity      == 100 \* queue.Queue(maxsize=100)
DefaultSeriesCount == 3   \* configure_session(series_count=3)
SpinMinDuration    == 5   \* duration_spin.setRange(5, 30)
SpinMinCycles      == 1   \* cycles_spin.setRange(1, 10)
SpinMinRest        == 2   \* rest_spin.setRange(2, 10)

NoAttr     == -1          \* attribute not set (hasattr is False) / None
KeyMissing == -2          \* session_stats has no 'total_recordings_planned'

Max(a, b) == IF a >= b THEN a ELSE b
Min(a, b) == IF a <= b THEN a ELSE b

(***************************************************************************)
(* Inputs.                                                                 *)
(***************************************************************************)
AutoGestures == <<"CERRAR_MANO", "PINZA", "SALUDAR", "TOMAR_OBJ">>

GestureLists == { <<"CERRAR_MANO">>, <<"CERRAR_MANO", "PINZA">> }

\* <<series_count, user_cycles>>: no cycle, one by series_count, MaxCycles
CycleInputs == { <<0, 0>>, <<1, 0>>, <<0, MaxCycles>> }

\* the arguments of configure_session:
\* <<selected_gestures, series_count, duration_per_gesture, rest_time, user_cycles>>
ValidConfigs ==
    { <<g, sc[1], d, r, sc[2]>> :
        g \in GestureLists, sc \in CycleInputs,
        d \in {MinGestureDuration, MaxDuration}, r \in {0, MaxRest} }

InvalidConfigs ==
    { << <<>>, 1, MinGestureDuration, 0, 0 >>,
      << <<"CERRAR_MANO">>, 1, MinGestureDuration - 1, 0, 0 >>,
      << <<"CERRAR_MANO">>, 1, MaxGestureDuration + 1, 0, 0 >> }

ConfigInputs == ValidConfigs \cup InvalidConfigs

(***************************************************************************)
(* The button-triggered serial logger (tomardatos.py).  A file is known by *)
(* the order in which it was opened: file k is the k-th one open() gave.   *)
(***************************************************************************)
LoggerLines == {"CSV_START", "CSV_END", "timestamp,session_time",
                "1,2,3,4,5,6,7", "1,2,3", "ready"}

\* len(line.split(',')) for the lines above
Parts(line) ==
    CASE line = "1,2,3,4,5,6,7"          -> 7
      [] line = "1,2,3"                  -> 3
      [] line = "timestamp,session_time" -> 2
      [] OTHER                           -> 1

NewLogger ==
    [ csv_file       |-> NoAttr,
      csv_writer     |-> NoAttr,
      logging_active |-> FALSE,
      session_number |-> 1,
      opened         |-> 0,       \* files open() has returned so far
      closed         |-> {},      \* files close() was called on
      rows           |-> <<>>,    \* per data row written, the file it went to
      pc             |-> "listening" ]

\* open() either returns file opened + 1 or raises (opens = FALSE); the
\* method returns the file name in the first case and None in the second
create_csv_file(l, opens) ==
    IF opens
    THEN [l EXCEPT !.opened = @ + 1, !.csv_file = l.opened + 1,
                   !.csv_writer = l.opened + 1]
    ELSE l

close_csv_file(l) ==
    IF l.csv_file # NoAttr
    THEN [l EXCEPT !.closed = @ \cup {l.csv_file}, !.csv_file = NoAttr,
                   !.csv_writer = NoAttr]
    ELSE l

process_data_line(l, line) ==
    IF Parts(line) = 7 /\ l.csv_writer # NoAttr
    THEN [l EXCEPT !.rows = Append(@, l.csv_writer)]
    ELSE l

\* one turn of the loop of listen_and_log on a received, non-empty line
listen_and_log(l, line, opens) ==
    CASE line = "CSV_START" ->
           IF opens       \* create_csv_file returned a file name
           THEN [create_csv_file(l, opens) EXCEPT !.logging_active = TRUE]
           ELSE create_csv_file(l, opens)
      [] line = "CSV_END" ->
           IF l.logging_active
           THEN [close_csv_file(l) EXCEPT !.session_number = @ + 1,
                                          !.logging_active = FALSE]
           ELSE l
      [] line = "timestamp,session_time" -> l
      [] OTHER ->
           IF l.logging_active /\ Parts(line) > 1
           THEN process_data_line(l, line)
           ELSE l

\* the finally clause of listen_and_log
listen_and_log_exit(l) ==
    [(IF l.logging_active THEN close_csv_file(l) ELSE l) EXCEPT !.pc = "done"]


VARIABLES
    now,                 \* time.time()
    session_controller,  \* the GestureSessionController object
    dataset_manager,     \* AutoEMGApp.dataset_manager (Toma_de_datos variant)
    sd_dataset_manager,  \* MainGestureApp.dataset_manager (system_data variant)
    processor,           \* EMGMonitorWorker.processor, the EMGProcessor
    device_next,         \* number of the next valid frame the device sends
    worker,              \* the EMGMonitorWorker thread
    signals,             \* data_ready signals queued to the main thread
    app,                 \* AutoEMGApp: auto_capture_active and the two buttons
    stopped,             \* history: stop_session has returned and RECORDING
                         \* has not been entered since
    emitted_under,       \* history: per sample, the label in force at emit
    windows,             \* history: the recordings entered since start
    logger,              \* the ESP32DataLogger of tomardatos.py
    observing            \* history: fired callbacks are kept after the call

vars == <<now, session_controller, dataset_manager, sd_dataset_manager,
          processor, device_next, worker, signals, app, stopped,
          emitted_under, windows, logger, observing>>

ctlSide == <<session_controller, app, stopped, observing>>
emgSide == <<processor, device_next, worker, signals>>
recSide == <<dataset_manager, emitted_under>>

(***************************************************************************)
(* GestureSessionController                                                *)
(***************************************************************************)
NoConfig ==
    [ selected_gestures    |-> <<>>,
      series_count         |-> 0,
      duration_per_gesture |-> 0,
      rest_time            |-> 0 ]

\* __init__
NewController ==
    [ state                           |-> "idle",
      config                          |-> NoConfig,
      current_gesture_index           |-> 0,
      current_series                  |-> 0,
      current_cycle                   |-> 0,
      total_cycles_user_defined       |-> 0,
      samples_captured_this_recording |-> 0,
      countdown_remaining             |-> 0,
      recording_start_time            |-> 0,
      countdown_start_time            |-> NoAttr,
      rest_start_time                 |-> NoAttr,
      session_stats |->
          [ start_time               |-> NoAttr,
            total_samples            |-> 0,
            gestures_completed       |-> [g \in {} |-> 0],
            series_completed         |-> 0,
            total_recordings_planned |-> KeyMissing ],
      fired                           |-> <<>> ]

\* "not self.config"
ConfigEmpty(c) == c.config = NoConfig

SeqToSet(s) == { s[i] : i \in 1..Len(s) }

\* a callback slot is invoked (the apps and example_usage set every slot
\* right after construction); the invocation is kept in c.fired
Fire(c, note) == [c EXCEPT !.fired = Append(@, note)]

\* faulty variant: the old state is read after the assignment
ChangeStateReadsOldLate(c, new_state) ==
    LET c1 == [c EXCEPT !.state = new_state,
                        !.countdown_start_time =
                            IF new_state # "countdown" THEN NoAttr ELSE @]
    IN  Fire(c1, <<"state_change", c1.state, new_state>>)

\* _change_state
ChangeState(c, new_state) ==
    LET c1 == [c EXCEPT !.state = new_state,
                        !.countdown_start_time =
                            IF new_state # "countdown" THEN NoAttr ELSE @]
    IN  Fire(c1, <<"state_change", c.state, new_state>>)

\* _trigger_error
TriggerError(c, message) ==
    Fire(ChangeState(c, "error"), <<"error", message>>)

\* get_current_gesture_info
GetCurrentGestureInfo(c) ==
    IF ConfigEmpty(c)
       \/ c.current_gesture_index >= Len(c.config.selected_gestures)
    THEN [ gesture_name  |-> "NINGUNO",
           gesture_index |-> -1,
           series_number |-> 0,
           cycle_number  |-> 0 ]
    ELSE [ gesture_name  |-> c.config.selected_gestures[c.current_gesture_index + 1],
           gesture_index |-> c.current_gesture_index,
           series_number |-> c.current_series + 1,
           cycle_number  |-> c.current_cycle + 1 ]

\* get_session_status: 'total_recordings_planned' is read first
StatusRaises(c) == c.session_stats.total_recordings_planned = KeyMissing

\* get_session_summary: the status is built first, then 'total_cycles' of
\* the current gesture is read, a key the 'NINGUNO' default does not have
SummaryRaises(c) ==
    \/ StatusRaises(c)
    \/ GetCurrentGestureInfo(c).gesture_name = "NINGUNO"

\* get_session_status: completed recordings according to the cursor
CompletedByCursor(c) ==
    c.current_cycle * Len(c.config.selected_gestures) + c.current_gesture_index

\* get_session_status: progress_percentage, as the whole percent the
\* progress bar shows (int(progress)); it is 100 exactly when the float is
ProgressPercentage(c) ==
    IF c.session_stats.total_recordings_planned > 0
    THEN Min(100, (CompletedByCursor(c) * 100)
                    \div c.session_stats.total_recordings_planned)
    ELSE 0

\* _complete_session
CompleteSession(c) ==
    Fire(ChangeState(c, "completed"), <<"session_complete">>)

\* faulty variant: the session ends when the list is exhausted, whatever
\* the number of cycles
StartNextRecordingOnePass(c) ==
    IF c.current_cycle >= c.total_cycles_user_defined
       \/ c.current_gesture_index >= Len(c.config.selected_gestures)
    THEN CompleteSession(c)
    ELSE LET info == GetCurrentGestureInfo(c)
             c2 == Fire(c, <<"gesture_change", info.gesture_name,
                              info.cycle_number>>)
             c3 == [c2 EXCEPT !.countdown_remaining = c2.config.rest_time]
         IN  ChangeState(c3, "countdown")

\* _start_next_recording
StartNextRecording(c) ==
    IF c.current_cycle >= c.total_cycles_user_defined
    THEN CompleteSession(c)
    ELSE LET wrap == c.current_gesture_index >= Len(c.config.selected_gestures)
             c1   == IF wrap
                     THEN [c EXCEPT !.current_gesture_index = 0,
                                    !.current_cycle = @ + 1]
                     ELSE c
         IN  IF wrap /\ c1.current_cycle >= c1.total_cycles_user_defined
             THEN CompleteSession(c1)
             ELSE LET info == GetCurrentGestureInfo(c1)
                      c2 == Fire(c1, <<"gesture_change", info.gesture_name,
                                       info.cycle_number>>)
                      c3 == [c2 EXCEPT !.countdown_remaining = c2.config.rest_time]
                  IN  ChangeState(c3, "countdown")

\* _start_recording
StartRecording(c, t) ==
    LET c1   == [c EXCEPT !.recording_start_time = t,
                          !.samples_captured_this_recording = 0]
        info == GetCurrentGestureInfo(c1)
    IN  Fire(ChangeState(c1, "recording"),
             <<"recording_start", info.gesture_name, info.cycle_number>>)

\* _update_countdown
UpdateCountdown(c, t) ==
    LET c1 == IF c.countdown_start_time = NoAttr
              THEN [c EXCEPT !.countdown_start_time = t] ELSE c
        elapsed == t - c1.countdown_start_time
        c2 == [c1 EXCEPT !.countdown_remaining =
                   Max(0, c1.config.rest_time - (elapsed \div TicksPerSec))]
        c3 == Fire(c2, <<"countdown_tick", c2.countdown_remaining>>)
    IN  IF c3.countdown_remaining <= 0 THEN StartRecording(c3, t) ELSE c3

\* _stop_recording
StopRecording(c, t) ==
    LET info == GetCurrentGestureInfo(c)
        name == info.gesture_name
    IN  IF name \notin DOMAIN c.session_stats.gestures_completed
        THEN c      \* KeyError: the handler is left before any assignment
        ELSE LET c1 == [c EXCEPT !.session_stats.gestures_completed[name] = @ + 1]
                 c2 == Fire(c1, <<"recording_end", name, info.cycle_number,
                                  c1.samples_captured_this_recording>>)
                 c3 == [c2 EXCEPT !.current_gesture_index = @ + 1]
                 c4 == ChangeState(c3, "resting")
             IN  [c4 EXCEPT !.rest_start_time = t]

\* faulty variant: a recording ends only once a sample has been captured
UpdateRecordingWaitsForSample(c, t) ==
    IF /\ t - c.recording_start_time >= c.config.duration_per_gesture * TicksPerSec
       /\ c.samples_captured_this_recording > 0
    THEN StopRecording(c, t)
    ELSE c

\* faulty variant: the recording ends only after more than the duration
UpdateRecordingStrictlyLater(c, t) ==
    IF t - c.recording_start_time > c.config.duration_per_gesture * TicksPerSec
    THEN StopRecording(c, t)
    ELSE c

\* _update_recording
UpdateRecording(c, t) ==
    IF t - c.recording_start_time >= c.config.duration_per_gesture * TicksPerSec
    THEN StopRecording(c, t)
    ELSE c

\* _update_resting
UpdateResting(c, t) ==
    LET c1 == IF c.rest_start_time = NoAttr
              THEN [c EXCEPT !.rest_start_time = t] ELSE c
    IN  IF t - c1.rest_start_time >= RestingSeconds * TicksPerSec
        THEN StartNextRecording(ChangeState(c1, "preparing"))
        ELSE c1


(***************************************************************************)
(* Public calls of the controller, as functions of the object.  Every      *)
(* call starts with an empty record of fired callbacks.                    *)
(***************************************************************************)
Entering(c) == [c EXCEPT !.fired = <<>>]

\* faulty variant: the duration has no upper bound
ConfigRejectedNoUpperBound(selected_gestures, duration_per_gesture) ==
    \/ selected_gestures = <<>>
    \/ duration_per_gesture < MinGestureDuration

\* configure_session: the two validity checks
ConfigRejected(selected_gestures, duration_per_gesture) ==
    \/ selected_gestures = <<>>
    \/ duration_per_gesture < MinGestureDuration
    \/ duration_per_gesture > MaxGestureDuration

\* configure_session: the value returned to the caller
configure_session_returns(selected_gestures, duration_per_gesture) ==
    ~ConfigRejected(selected_gestures, duration_per_gesture)

\* faulty variant: the counters are reset before the input is validated
configure_session_resets_first(c0, selected_gestures, series_count, duration_per_gesture, rest_time, user_cycles) ==
    LET c == [Entering(c0) EXCEPT !.current_gesture_index = 0,
                                  !.current_series = 0,
                                  !.current_cycle = 0]
    IN
    IF selected_gestures = <<>>
    THEN TriggerError(c, "No se seleccionaron gestos para capturar")
    ELSE IF ConfigRejected(selected_gestures, duration_per_gesture)
    THEN TriggerError(c, "Duracion por gesto debe estar entre 1 y 60 segundos")
    ELSE LET total == IF user_cycles > 0 THEN user_cycles ELSE series_count
         IN  [c EXCEPT
               !.config = [ selected_gestures    |-> selected_gestures,
                            series_count         |-> series_count,
                            duration_per_gesture |-> duration_per_gesture,
                            rest_time            |-> rest_time ],
               !.total_cycles_user_defined = total,
               !.current_gesture_index = 0,
               !.current_series = 0,
               !.current_cycle = 0,
               !.samples_captured_this_recording = 0,
               !.session_stats =
                   [ start_time               |-> NoAttr,
                     total_samples            |-> 0,
                     gestures_completed       |->
                         [g \in SeqToSet(selected_gestures) |-> 0],
                     series_completed         |-> 0,
                     total_recordings_planned |->
                         Len(selected_gestures) * total ] ]

\* configure_session
configure_session(c0, selected_gestures, series_count, duration_per_gesture, rest_time, user_cycles) ==
    LET c == Entering(c0) IN
    IF selected_gestures = <<>>
    THEN TriggerError(c, "No se seleccionaron gestos para capturar")
    ELSE IF ConfigRejected(selected_gestures, duration_per_gesture)
    THEN TriggerError(c, "Duracion por gesto debe estar entre 1 y 60 segundos")
    ELSE LET total == IF user_cycles > 0 THEN user_cycles ELSE series_count
         IN  [c EXCEPT
               !.config = [ selected_gestures    |-> selected_gestures,
                            series_count         |-> series_count,
                            duration_per_gesture |-> duration_per_gesture,
                            rest_time            |-> rest_time ],
               !.total_cycles_user_defined = total,
               !.current_gesture_index = 0,
               !.current_series = 0,
               !.current_cycle = 0,
               !.samples_captured_this_recording = 0,
               !.session_stats =
                   [ start_time               |-> NoAttr,
                     total_samples            |-> 0,
                     gestures_completed       |->
                         [g \in SeqToSet(selected_gestures) |-> 0],
                     series_completed         |-> 0,
                     total_recordings_planned |->
                         Len(selected_gestures) * total ] ]

\* start_session: the two refusals
StartRefused(c) == c.state # "idle" \/ ConfigEmpty(c)

\* what start_session returns
start_session_returns(c) == ~StartRefused(c)

\* faulty variant: a start that cannot be made is ignored
start_session_refuses_quietly(c0) ==
    LET c == Entering(c0) IN
    IF StartRefused(c)
    THEN c
    ELSE LET c1 == [c EXCEPT !.session_stats.start_time = 0,
                             !.current_gesture_index = 0,
                             !.current_series = 0,
                             !.current_cycle = 0]
         IN  StartNextRecording(ChangeState(c1, "preparing"))

\* faulty variant: the state is not looked at before a session is started
start_session_from_any_state(c0) ==
    LET c == Entering(c0) IN
    IF ConfigEmpty(c)
    THEN TriggerError(c, "Sesion no configurada")
    ELSE LET c1 == [c EXCEPT !.session_stats.start_time = 0,
                             !.current_gesture_index = 0,
                             !.current_series = 0,
                             !.current_cycle = 0]
         IN  StartNextRecording(ChangeState(c1, "preparing"))

\* start_session
start_session(c0) ==
    LET c == Entering(c0) IN
    IF c.state # "idle"
    THEN TriggerError(c, "No se puede iniciar sesion en estado")
    ELSE IF StartRefused(c)
    THEN TriggerError(c, "Sesion no configurada")
    ELSE LET c1 == [c EXCEPT !.session_stats.start_time = 0,
                             !.current_gesture_index = 0,
                             !.current_series = 0,
                             !.current_cycle = 0]
         IN  StartNextRecording(ChangeState(c1, "preparing"))

\* faulty variant: stop_session does what pause_session does
stop_session_as_pause(c0) ==
    LET c == Entering(c0) IN
    IF c.state = "idle" THEN c ELSE ChangeState(c, "paused")

\* faulty variant: the state is changed to IDLE even when it is IDLE
stop_session_renotifies(c0) == ChangeState(Entering(c0), "idle")

\* stop_session
stop_session(c0) ==
    LET c == Entering(c0) IN
    IF c.state = "idle" THEN c ELSE ChangeState(c, "idle")

\* faulty variant: a session is paused whatever its state
PausableAlways(c) == c.state \in {c.state}

\* faulty variant: a rest cannot be paused
PausableWhileCapturing(c) == c.state \in {"countdown", "recording"}

\* pause_session: the states that can be paused
Pausable(c) == c.state \in {"countdown", "recording", "resting"}

\* pause_session: the value returned to the caller
pause_session_returns(c) == Pausable(c)

\* pause_session
pause_session(c0) ==
    LET c == Entering(c0) IN
    IF Pausable(c) THEN ChangeState(c, "paused") ELSE c

\* resume_session: the value returned to the caller
resume_session_returns(c) == c.state = "paused"

\* faulty variant: the state is not looked at before a session is resumed
resume_session_from_any_state(c0) ==
    StartNextRecording(ChangeState(Entering(c0), "preparing"))

\* faulty variant: a resumed session starts its cycle again
resume_session_restarts_cycle(c0) ==
    LET c == Entering(c0) IN
    IF c.state = "paused"
    THEN StartNextRecording(
             ChangeState([c EXCEPT !.current_gesture_index = 0], "preparing"))
    ELSE c

\* resume_session
resume_session(c0) ==
    LET c == Entering(c0) IN
    IF c.state = "paused"
    THEN StartNextRecording(ChangeState(c, "preparing"))
    ELSE c

\* update: the state handlers (last_update_time is written and never read;
\* get_session_status, which ends the call, changes nothing)
update(c0, current_time) ==
    LET c == Entering(c0)
    IN  IF c.state = "countdown" THEN UpdateCountdown(c, current_time)
        ELSE IF c.state = "recording" THEN UpdateRecording(c, current_time)
        ELSE IF c.state = "resting" THEN UpdateResting(c, current_time)
        ELSE c

\* increment_sample_count: the guard
CountsSample(c) == c.state = "recording"

\* faulty variant: the recording ends when a sample has been counted
increment_sample_count_ends_recording(c0) ==
    LET c == Entering(c0) IN
    IF CountsSample(c)
    THEN ChangeState([c EXCEPT !.samples_captured_this_recording = @ + 1,
                               !.session_stats.total_samples = @ + 1],
                     "resting")
    ELSE c

\* increment_sample_count
increment_sample_count(c0) ==
    LET c == Entering(c0) IN
    IF CountsSample(c)
    THEN [c EXCEPT !.samples_captured_this_recording = @ + 1,
                   !.session_stats.total_samples = @ + 1]
    ELSE c

(***************************************************************************)
(* GestureDatasetManager, both variants.  A frame's features are the       *)
(* channel values and device timestamps of one parsed frame; frame k       *)
(* carries the value k in every field.                                     *)
(***************************************************************************)
EmptyDict == <<>>

IsEmptyDict(d) == DOMAIN d = {}

Frame(k) ==
    [ timestamp |-> k, session_time |-> k, emg1 |-> k, emg2 |-> k, emg3 |-> k ]

FeaturesOf(k) ==
    [ emg1_raw |-> k, emg2_raw |-> k, emg3_raw |-> k,
      session_time |-> k, esp32_timestamp |-> k ]

\* strftime('%Y%m%d_%H%M%S'): the session id is the second of the clock
SessionId(t) == t \div TicksPerSec

\* __init__ (both variants)
NewDatasetManager ==
    [ dataset      |-> <<>>,
      session_info |-> [ total_samples |-> 0, current_session_id |-> NoAttr ] ]

\* Toma_de_datos start_new_session: the previous dataset is cleared
TD_start_new_session(dm, t) ==
    [ dataset      |-> <<>>,
      session_info |-> [ total_samples |-> 0, current_session_id |-> SessionId(t) ] ]

\* system_data start_new_session: the dataset is kept
SD_start_new_session(dm, t) ==
    [ dataset      |-> dm.dataset,
      session_info |-> [ total_samples |-> 0, current_session_id |-> SessionId(t) ] ]

\* faulty variant: numbers by the session's counter, not by the length
NextSampleNumberBySession(dm) == dm.session_info.total_samples + 1

\* add_sample: the number given to the new sample
NextSampleNumber(dm) == Len(dm.dataset) + 1

\* add_sample: "if not features: return False"
AddSampleAccepts(features) == ~IsEmptyDict(features)

\* faulty variant: the new sample is put in front of the dataset
add_sample_in_front(dm, features, gesture_id, gesture_name, series_number) ==
    IF ~AddSampleAccepts(features)
    THEN dm
    ELSE [dm EXCEPT
           !.dataset = << [ session_id    |-> dm.session_info.current_session_id,
                            sample_number |-> NextSampleNumber(dm),
                            series_number |-> series_number,
                            gesture_id    |-> gesture_id,
                            gesture_name  |-> gesture_name,
                            features      |-> features ] >> \o @,
           !.session_info.total_samples = @ + 1]

\* add_sample (both variants; no caller passes additional_info)
add_sample(dm, features, gesture_id, gesture_name, series_number) ==
    IF ~AddSampleAccepts(features)
    THEN dm
    ELSE [dm EXCEPT
           !.dataset = Append(@,
               [ session_id    |-> dm.session_info.current_session_id,
                 sample_number |-> NextSampleNumber(dm),
                 series_number |-> series_number,
                 gesture_id    |-> gesture_id,
                 gesture_name  |-> gesture_name,
                 features      |-> features ]),
           !.session_info.total_samples = @ + 1]

\* clear_dataset (both variants)
clear_dataset(dm) ==
    [dm EXCEPT !.dataset = <<>>, !.session_info.total_samples = 0]

\* load_dataset: the records of the file replace the dataset (found), or
\* nothing changes; session_info is not assigned
load_dataset(dm, found, records) ==
    IF found THEN [dm EXCEPT !.dataset = records] ELSE dm


(***************************************************************************)
(* EMGProcessor.  A line of the serial link is [kind, k]: a data line of   *)
(* frame k, a status line ("SISTEMA:..."), a control line, the CSV header, *)
(* or a record the parser rejects.                                         *)
(***************************************************************************)
DataLine(k) == [kind |-> "data", k |-> k]

OtherLines ==
    { [kind |-> "status",         k |-> 0],     \* "SISTEMA:..."
      [kind |-> "too_few_fields", k |-> 0],     \* fewer than 6 fields
      [kind |-> "bad_number",     k |-> 0] }    \* int()/float() fails

\* __init__
NewProcessor ==
    [ connected           |-> FALSE,
      serial_open         |-> FALSE,
      reading_thread      |-> "none",
      stop_reading        |-> FALSE,
      data_queue          |-> <<>>,
      last_emg_data       |-> EmptyDict,
      last_detection_time |-> NoAttr,
      orphans             |-> 0,      \* earlier reading threads still alive
      putting             |-> <<>>,   \* frames between full() and put()
      blocked             |-> 0 ]     \* threads waiting inside put()

\* start_reading_thread
start_reading_thread(p) ==
    [p EXCEPT !.stop_reading = FALSE, !.reading_thread = "alive",
              !.orphans = IF p.reading_thread = "alive" THEN @ + 1 ELSE @]

\* a connect that starts the reading thread before it opens the port
connect_starts_reader_first(p, opened) ==
    IF opened
    THEN start_reading_thread([p EXCEPT !.serial_open = TRUE, !.connected = TRUE])
    ELSE [start_reading_thread(p) EXCEPT !.connected = FALSE]

\* connect: serial.Serial(...) opens the port (opened) or raises
connect(p, opened) ==
    IF opened
    THEN start_reading_thread([p EXCEPT !.serial_open = TRUE, !.connected = TRUE])
    ELSE [p EXCEPT !.connected = FALSE]

\* what connect() returns
connect_returns(p, opened) == opened

\* a disconnect that closes the port and raises no flag
disconnect_closes_only(p) == [p EXCEPT !.serial_open = FALSE]

\* disconnect (the join is bounded: the thread may still be alive after it)
disconnect(p) ==
    [p EXCEPT !.stop_reading = TRUE, !.connected = FALSE, !.serial_open = FALSE]

\* the records the parser rejects
RejectedLines == { line \in OtherLines : line.kind \in {"too_few_fields", "bad_number"} }

\* faulty variant: the liveness clock is stamped before the record is parsed
process_serial_line_stamps_first(p, line, t) ==
    IF line.kind = "data"
    THEN [p EXCEPT !.last_emg_data = Frame(line.k),
                   !.last_detection_time = t,
                   !.data_queue = IF Len(@) < QueueCapacity
                                  THEN Append(@, Frame(line.k)) ELSE @]
    ELSE [p EXCEPT !.last_detection_time = t]

\* _read_serial_data: in_waiting, readline() or decode() raises; the loop
\* catches the exception, waits and takes its next turn
read_fault(p) == p

\* faulty variant: a full queue gives up its oldest entry for the new frame
process_serial_line_drops_oldest(p, line, t) ==
    IF line.kind = "status"
    THEN [p EXCEPT !.last_detection_time = t]
    ELSE IF line.kind = "data"
    THEN [p EXCEPT !.last_emg_data = Frame(line.k),
                   !.last_detection_time = t,
                   !.data_queue = IF Len(@) < QueueCapacity
                                  THEN Append(@, Frame(line.k))
                                  ELSE Append(Tail(@), Frame(line.k))]
    ELSE p

\* _process_serial_line at time t
process_serial_line(p, line, t) ==
    IF line.kind = "status"
    THEN [p EXCEPT !.last_detection_time = t]
    ELSE IF line.kind = "data"
    THEN [p EXCEPT !.last_emg_data = Frame(line.k),
                   !.last_detection_time = t,
                   !.data_queue = IF Len(@) < QueueCapacity
                                  THEN Append(@, Frame(line.k)) ELSE @]
    ELSE p

\* the threads that run _read_serial_data
LiveReaders(p) == (IF p.reading_thread = "alive" THEN 1 ELSE 0) + p.orphans

\* _process_serial_line for the data line of frame k at time t, up to and
\* including the test "if not self.data_queue.full()"
parse_data_line(p, k, t) ==
    [p EXCEPT !.last_emg_data = Frame(k),
              !.last_detection_time = t,
              !.putting = IF Len(p.data_queue) < QueueCapacity
                          THEN Append(@, Frame(k)) ELSE @]

Remove(seq, i) == SubSeq(seq, 1, i - 1) \o SubSeq(seq, i + 1, Len(seq))

\* self.data_queue.put(emg_data) of the i-th thread that passed the test:
\* Queue.put waits while the queue is full, and nothing ever takes from it
queue_put(p, i) ==
    IF Len(p.data_queue) < QueueCapacity
    THEN [p EXCEPT !.data_queue = Append(@, p.putting[i]),
                   !.putting = Remove(@, i)]
    ELSE [p EXCEPT !.blocked = @ + 1,
                   !.putting = Remove(@, i)]

\* is_sensor_connected at time t
is_sensor_connected(p, t) ==
    /\ p.connected
    /\ p.last_detection_time # NoAttr
    /\ t - p.last_detection_time <= LivenessSeconds * TicksPerSec

\* get_latest_emg_data
get_latest_emg_data(p) == p.last_emg_data

\* faulty variant: the device timestamp is taken from the oldest queued
\* frame, the channels from the latest frame
get_emg_features_mixes_frames(p) ==
    LET emg_data == p.last_emg_data
    IN  IF IsEmptyDict(emg_data)
        THEN FeaturesOf(0)
        ELSE [ emg1_raw        |-> emg_data.emg1,
               emg2_raw        |-> emg_data.emg2,
               emg3_raw        |-> emg_data.emg3,
               session_time    |-> emg_data.session_time,
               esp32_timestamp |-> IF p.data_queue = <<>> THEN emg_data.timestamp
                                   ELSE p.data_queue[1].timestamp ]

\* get_emg_features: one read of last_emg_data, then its fields
get_emg_features(p) ==
    LET emg_data == p.last_emg_data
    IN  IF IsEmptyDict(emg_data)
        THEN FeaturesOf(0)
        ELSE [ emg1_raw        |-> emg_data.emg1,
               emg2_raw        |-> emg_data.emg2,
               emg3_raw        |-> emg_data.emg3,
               session_time    |-> emg_data.session_time,
               esp32_timestamp |-> emg_data.timestamp ]

(***************************************************************************)
(* AutoEMGApp                                                              *)
(***************************************************************************)
\* __init__ / _setup_ui
NewApp ==
    [ auto_capture_active |-> FALSE,
      start_btn_enabled   |-> TRUE,
      stop_btn_enabled    |-> FALSE ]

\* _on_state_change
OnStateChange(a, new_state) ==
    IF new_state = "idle"
    THEN [a EXCEPT !.start_btn_enabled = TRUE,  !.stop_btn_enabled = FALSE]
    ELSE [a EXCEPT !.start_btn_enabled = FALSE, !.stop_btn_enabled = TRUE]

\* the on_state_change callbacks of one controller call, in order: the
\* last one decides the buttons
AfterCallbacks(a, fired) ==
    LET changes == { i \in 1..Len(fired) : fired[i][1] = "state_change" }
    IN  IF changes = {} THEN a
        ELSE OnStateChange(a, fired[CHOOSE i \in changes :
                                       \A j \in changes : j <= i][3])

\* _on_emg_data_ready: gesture_mapping.get(name, 0)
GestureMapping(name) ==
    IF name = "CERRAR_MANO" THEN 1
    ELSE IF name = "PINZA" THEN 2
    ELSE IF name = "SALUDAR" THEN 3
    ELSE IF name = "TOMAR_OBJ" THEN 4
    ELSE 0

\* dict.get(key, default)
Get(d, key, default) == IF key \in DOMAIN d THEN d[key] ELSE default

\* _on_emg_data_ready: clean_features
CleanFeatures(features, raw_data) ==
    [ emg1_raw        |-> Get(features, "emg1_raw", Get(raw_data, "emg1", 0)),
      emg2_raw        |-> Get(features, "emg2_raw", Get(raw_data, "emg2", 0)),
      emg3_raw        |-> Get(features, "emg3_raw", Get(raw_data, "emg3", 0)),
      session_time    |-> Get(features, "session_time",
                              Get(raw_data, "session_time", 0)),
      esp32_timestamp |-> Get(features, "esp32_timestamp",
                              Get(raw_data, "timestamp", 0)) ]

\* faulty variant: the state of the session is not looked at
RecorderAcceptsAnyState(c, a, features) ==
    /\ a.auto_capture_active
    /\ ~IsEmptyDict(features)

\* _on_emg_data_ready: the condition under which the frame is recorded
RecorderAccepts(c, a, features) ==
    /\ c.state = "recording"
    /\ a.auto_capture_active
    /\ ~IsEmptyDict(features)

\* faulty variant: the label in force when the worker emitted the signal
RecorderGestureInfoAtEmit(c, sig) == sig.emit_info

\* _on_emg_data_ready: the label of the sample, read from the controller
\* when the signal sig is handled
RecorderGestureInfo(c, sig) == GetCurrentGestureInfo(c)


(***************************************************************************)
(* Initial state: the objects as their constructors leave them.  The app   *)
(* sets the controller's callbacks and starts the worker in __init__.      *)
(***************************************************************************)
Init ==
    /\ now = 0
    /\ session_controller = NewController
    /\ dataset_manager = NewDatasetManager
    /\ sd_dataset_manager = NewDatasetManager
    /\ processor = NewProcessor
    /\ device_next = 1
    /\ worker = [pc |-> "connect", features |-> EmptyDict, is_connected |-> FALSE]
    /\ signals = <<>>
    /\ app = NewApp
    /\ stopped = FALSE
    /\ emitted_under = <<>>
    /\ windows = <<>>
    /\ logger = NewLogger
    /\ observing = FALSE

\* the same, with the callbacks of the last call kept for inspection
InitObserved ==
    /\ now = 0
    /\ session_controller = NewController
    /\ dataset_manager = NewDatasetManager
    /\ sd_dataset_manager = NewDatasetManager
    /\ processor = NewProcessor
    /\ device_next = 1
    /\ worker = [pc |-> "connect", features |-> EmptyDict, is_connected |-> FALSE]
    /\ signals = <<>>
    /\ app = NewApp
    /\ stopped = FALSE
    /\ emitted_under = <<>>
    /\ windows = <<>>
    /\ logger = NewLogger
    /\ observing = TRUE

(***************************************************************************)
(* The clock.                                                              *)
(***************************************************************************)
Advance ==
    /\ now < MaxTime
    /\ now' = now + 1
    /\ UNCHANGED <<ctlSide, emgSide, recSide, sd_dataset_manager, windows, logger>>

(***************************************************************************)
(* Public calls of the controller.  The callbacks a call fires reach the   *)
(* app before the call returns.                                            *)
(***************************************************************************)
\* the controller as a call leaves it; the callbacks it fired stay
\* readable only while observing
Returned(c1) == IF observing THEN c1 ELSE Entering(c1)

Called(c1) ==
    /\ session_controller' = Returned(c1)
    /\ app' = AfterCallbacks(app, c1.fired)
    /\ stopped' = (stopped /\ c1.state # "recording")
    /\ observing' = observing

ConfigureSession(g, series, dur, rest, cycles) ==
    /\ Called(configure_session(session_controller, g, series, dur, rest, cycles))
    /\ UNCHANGED <<now, emgSide, recSide, sd_dataset_manager, windows, logger>>

StartSession ==
    /\ Called(start_session(session_controller))
    /\ UNCHANGED <<now, emgSide, recSide, sd_dataset_manager, windows, logger>>

StopSession ==
    /\ LET c1 == stop_session(session_controller)
       IN  /\ session_controller' = Returned(c1)
           /\ app' = AfterCallbacks(app, c1.fired)
    /\ stopped' = TRUE
    /\ observing' = observing
    /\ UNCHANGED <<now, emgSide, recSide, sd_dataset_manager, windows, logger>>

PauseSession ==
    /\ Called(pause_session(session_controller))
    /\ UNCHANGED <<now, emgSide, recSide, sd_dataset_manager, windows, logger>>

ResumeSession ==
    /\ Called(resume_session(session_controller))
    /\ UNCHANGED <<now, emgSide, recSide, sd_dataset_manager, windows, logger>>

\* update, as the 100 ms timer (_update_session) or any caller calls it
Update ==
    /\ Called(update(session_controller, now))
    /\ UNCHANGED <<now, emgSide, recSide, sd_dataset_manager, windows, logger>>

IncrementSampleCount ==
    /\ session_controller.session_stats.total_samples < MaxSamples
    /\ Called(increment_sample_count(session_controller))
    /\ UNCHANGED <<now, emgSide, recSide, sd_dataset_manager, windows, logger>>

CtlNext ==
    \/ Advance
    \/ \E a \in ConfigInputs : ConfigureSession(a[1], a[2], a[3], a[4], a[5])
    \/ StartSession
    \/ StopSession
    \/ PauseSession
    \/ ResumeSession
    \/ Update
    \/ IncrementSampleCount

SpecCtl == InitObserved /\ [][CtlNext]_vars

(***************************************************************************)
(* A session that runs undisturbed: configure, start, then only ticks of   *)
(* the clock and update().  windows keeps the recordings entered.          *)
(***************************************************************************)
SchedConfigs ==
    { <<g, 0, d, r, n>> :
        g \in GestureLists, n \in 0..SchedCycles,
        d \in {MinGestureDuration, MaxDuration}, r \in {0, MaxRest} }

\* the on_recording_start callbacks of one call, as <<label, cycle>>
RecordingsStarted(fired) ==
    LET IsStart(n) == n[1] = "recording_start"
        starts == SelectSeq(fired, IsStart)
    IN  [i \in 1..Len(starts) |-> <<starts[i][2], starts[i][3]>>]

SchedAdvance ==
    /\ now < SchedMaxTime
    /\ now' = now + 1
    /\ UNCHANGED <<ctlSide, emgSide, recSide, sd_dataset_manager, windows, logger>>

SchedConfigure(g, series, dur, rest, cycles) ==
    /\ session_controller.state = "idle"
    /\ ConfigureSession(g, series, dur, rest, cycles)

SchedStart ==
    /\ session_controller.state = "idle"
    /\ ~ConfigEmpty(session_controller)
    /\ Called(start_session(session_controller))
    /\ windows' = <<>>
    /\ logger' = logger
    /\ UNCHANGED <<now, emgSide, recSide, sd_dataset_manager>>

SchedUpdate ==
    /\ Called(update(session_controller, now))
    /\ windows' = windows \o RecordingsStarted(session_controller'.fired)
    /\ logger' = logger
    /\ UNCHANGED <<now, emgSide, recSide, sd_dataset_manager>>

SchedNext ==
    \/ SchedAdvance
    \/ \E a \in SchedConfigs : SchedConfigure(a[1], a[2], a[3], a[4], a[5])
    \/ SchedStart
    \/ SchedUpdate

SpecSched == InitObserved /\ [][SchedNext]_vars

(***************************************************************************)
(* A session that is run to its end: the main loop calls update() at every *)
(* instant before the clock moves on, and nothing pauses, stops or         *)
(* reconfigures the session.  The device may deliver samples or none.      *)
(***************************************************************************)
\* the ticks a session of the stored configuration lasts at most: countdown,
\* recording and rest of every recording, one tick more for each countdown
\* (it is timed from the first update() that finds it) and one to finish
SessionLength(c) ==
    Len(c.config.selected_gestures) * c.total_cycles_user_defined
        * ((c.config.rest_time + c.config.duration_per_gesture + RestingSeconds)
               * TicksPerSec + 1)
      + 1

\* start_session, while the clock of the model leaves room for the session
DoneStart ==
    /\ ~ConfigEmpty(session_controller)
    /\ now + SessionLength(session_controller) <= DoneMaxTime
    /\ SchedStart

\* a turn of the main loop: update(), then time passes
LoopTurn ==
    /\ now < DoneMaxTime
    /\ Called(update(session_controller, now))
    /\ now' = now + 1
    /\ UNCHANGED <<emgSide, recSide, sd_dataset_manager, windows, logger>>

DoneNext ==
    \/ \E a \in SchedConfigs : SchedConfigure(a[1], a[2], a[3], a[4], a[5])
    \/ DoneStart
    \/ Update
    \/ LoopTurn
    \/ IncrementSampleCount

SpecDone == Init /\ [][DoneNext]_vars /\ WF_vars(LoopTurn)

(***************************************************************************)
(* The dataset managers driven by a caller.                                *)
(***************************************************************************)
FeatureInputs == { EmptyDict } \cup { FeaturesOf(k) : k \in 1..MaxFrames }

LabelInputs == { <<1, "CERRAR_MANO">>, <<2, "PINZA">> }

dsFrame == <<ctlSide, emgSide, emitted_under, windows, logger>>

DsAdvance ==
    /\ now < MaxTime
    /\ now' = now + 1
    /\ UNCHANGED <<dataset_manager, sd_dataset_manager, dsFrame>>

TD_StartNewSession ==
    /\ dataset_manager' = TD_start_new_session(dataset_manager, now)
    /\ UNCHANGED <<now, sd_dataset_manager, dsFrame>>

TD_AddSample(features, label, series) ==
    /\ Len(dataset_manager.dataset) < DsMaxSamples
    /\ dataset_manager' =
           add_sample(dataset_manager, features, label[1], label[2], series)
    /\ UNCHANGED <<now, sd_dataset_manager, dsFrame>>

TD_ClearDataset ==
    /\ dataset_manager' = clear_dataset(dataset_manager)
    /\ UNCHANGED <<now, sd_dataset_manager, dsFrame>>

SD_StartNewSession ==
    /\ sd_dataset_manager' = SD_start_new_session(sd_dataset_manager, now)
    /\ UNCHANGED <<now, dataset_manager, dsFrame>>

SD_AddSample(features, label, series) ==
    /\ Len(sd_dataset_manager.dataset) < DsMaxSamples
    /\ sd_dataset_manager' =
           add_sample(sd_dataset_manager, features, label[1], label[2], series)
    /\ UNCHANGED <<now, dataset_manager, dsFrame>>

SD_ClearDataset ==
    /\ sd_dataset_manager' = clear_dataset(sd_dataset_manager)
    /\ UNCHANGED <<now, dataset_manager, dsFrame>>

DsNext ==
    \/ DsAdvance
    \/ TD_StartNewSession
    \/ TD_ClearDataset
    \/ SD_StartNewSession
    \/ SD_ClearDataset
    \/ \E f \in FeatureInputs, l \in LabelInputs :
           \/ TD_AddSample(f, l, 1)
           \/ SD_AddSample(f, l, 1)

SpecDS == Init /\ [][DsNext]_vars

\* the files a caller may load: an empty one, and one saved with one sample
SavedSample ==
    [ session_id    |-> 0,
      sample_number |-> 1,
      series_number |-> 1,
      gesture_id    |-> 1,
      gesture_name  |-> "CERRAR_MANO",
      features      |-> FeaturesOf(1) ]

FileInputs == { <<>>, <<SavedSample>> }

TD_LoadDataset(found, records) ==
    /\ dataset_manager.session_info.total_samples < DsMaxSamples
    /\ dataset_manager' = load_dataset(dataset_manager, found, records)
    /\ UNCHANGED <<now, sd_dataset_manager, dsFrame>>

SD_LoadDataset(found, records) ==
    /\ sd_dataset_manager.session_info.total_samples < DsMaxSamples
    /\ sd_dataset_manager' = load_dataset(sd_dataset_manager, found, records)
    /\ UNCHANGED <<now, dataset_manager, dsFrame>>

\* the dataset managers, with files loaded as well
LoadNext ==
    \/ DsNext
    \/ \E found \in BOOLEAN, records \in FileInputs :
           \/ TD_LoadDataset(found, records)
           \/ SD_LoadDataset(found, records)

SpecLoad == Init /\ [][LoadNext]_vars


(***************************************************************************)
(* The capture application: the device and the reader thread, the polling  *)
(* worker, and the handlers of the main thread.                            *)
(***************************************************************************)
\* <<duration_spin, cycles_spin, rest_spin>>: the shortest session the
\* spin boxes allow
SpinInputs == { <<SpinMinDuration, SpinMinCycles, SpinMinRest>> }

\* configure_session as a caller other than the start button may call it
AppConfigInputs ==
    { << <<"PINZA">>, 1, MinGestureDuration, 0, 0 >>,
      << <<>>, 1, MinGestureDuration, 0, 0 >> }

mainSide == <<ctlSide, recSide>>

AppAdvance ==
    /\ now < AppMaxTime
    /\ now' = now + 1
    /\ UNCHANGED <<ctlSide, emgSide, recSide, sd_dataset_manager, windows, logger>>

\* _read_serial_data: one turn of the loop that reads a line
ReaderReadLineUpTo(line, maxFrames) ==
    /\ processor.reading_thread = "alive"
    /\ ~processor.stop_reading /\ processor.connected
    /\ processor.serial_open
    /\ IF line.kind = "data"
       THEN /\ line.k = device_next
            /\ device_next <= maxFrames
            /\ device_next' = device_next + 1
       ELSE UNCHANGED device_next
    /\ processor' = process_serial_line(processor, line, now)
    /\ UNCHANGED <<now, mainSide, worker, signals, sd_dataset_manager, windows, logger>>

\* the same, for the frames of the model's device
ReaderReadLine(line) == ReaderReadLineUpTo(line, MaxFrames)

\* _read_serial_data: the loop condition fails and the thread ends
ReaderExit ==
    /\ processor.reading_thread = "alive"
    /\ processor.stop_reading \/ ~processor.connected
    /\ processor' = [processor EXCEPT !.reading_thread = "exited"]
    /\ UNCHANGED <<now, mainSide, device_next, worker, signals,
                   sd_dataset_manager, windows, logger>>

\* EMGMonitorWorker.run: connect()
WorkerConnect(opened) ==
    /\ worker.pc = "connect"
    /\ processor' = connect(processor, opened)
    /\ worker' = [worker EXCEPT !.pc = IF opened THEN "process" ELSE "cleanup"]
    /\ UNCHANGED <<now, mainSide, device_next, signals, sd_dataset_manager,
                   windows, logger>>

\* EMGMonitorWorker.run: process_frame()
WorkerProcessFrame ==
    /\ worker.pc = "process"
    /\ worker' = [worker EXCEPT
                    !.pc = "emit",
                    !.features = get_emg_features(processor),
                    !.is_connected = is_sensor_connected(processor, now)]
    /\ UNCHANGED <<now, mainSide, processor, device_next, signals,
                   sd_dataset_manager, windows, logger>>

\* EMGMonitorWorker.run: get_latest_emg_data() and data_ready.emit(...);
\* emit_info is what the controller designates at this moment
WorkerEmitUpTo(maxInFlight) ==
    /\ worker.pc = "emit"
    /\ Len(signals) < maxInFlight
    /\ signals' = Append(signals,
           [ raw_data     |-> get_latest_emg_data(processor),
             features     |-> worker.features,
             is_connected |-> worker.is_connected,
             emit_info    |-> GetCurrentGestureInfo(session_controller) ])
    /\ worker' = [worker EXCEPT !.pc = "process"]
    /\ UNCHANGED <<now, mainSide, processor, device_next, sd_dataset_manager,
                   windows, logger>>

\* the same, with the model's bound on queued signals
WorkerEmit == WorkerEmitUpTo(MaxInFlight)

\* EMGMonitorWorker.run: finally: processor.cleanup()
WorkerCleanup ==
    /\ worker.pc = "cleanup"
    /\ processor' = disconnect(processor)
    /\ worker' = [worker EXCEPT !.pc = "finished"]
    /\ UNCHANGED <<now, mainSide, device_next, signals, sd_dataset_manager,
                   windows, logger>>

\* AutoEMGApp._start_auto_session (the start button)
StartAutoSession(duration, cycles, rest_time) ==
    /\ app.start_btn_enabled
    /\ LET c1 == configure_session(session_controller, AutoGestures,
                                   DefaultSeriesCount, duration, rest_time, cycles)
           a1 == AfterCallbacks(app, c1.fired)
           c2 == start_session(c1)
           a2 == AfterCallbacks(a1, c2.fired)
       IN  IF ConfigRejected(AutoGestures, duration)
           THEN /\ session_controller' = Returned(c1)
                /\ app' = a1
                /\ UNCHANGED <<stopped, recSide>>
           ELSE /\ dataset_manager' = TD_start_new_session(dataset_manager, now)
                /\ emitted_under' = <<>>
                /\ session_controller' = Returned(c2)
                /\ app' = [a2 EXCEPT !.auto_capture_active = TRUE]
                /\ UNCHANGED stopped
    /\ UNCHANGED <<now, emgSide, sd_dataset_manager, windows, logger, observing>>

\* faulty variant: the stop button also closes the link, as closeEvent does
ProcessorAfterStopCloses(p) == disconnect(p)

\* AutoEMGApp._stop_session: no statement of the handler reaches the worker
\* or its processor
ProcessorAfterStop(p) == p

\* AutoEMGApp._stop_session (the stop button)
AppStopSession ==
    /\ app.stop_btn_enabled
    /\ LET c1 == stop_session(session_controller)
       IN  /\ session_controller' = Returned(c1)
           /\ app' = [AfterCallbacks(app, c1.fired) EXCEPT
                        !.auto_capture_active = FALSE,
                        !.start_btn_enabled = TRUE,
                        !.stop_btn_enabled = FALSE]
    /\ stopped' = TRUE
    /\ processor' = ProcessorAfterStop(processor)
    /\ UNCHANGED <<now, device_next, worker, signals, recSide,
                   sd_dataset_manager, windows, logger, observing>>

\* AutoEMGApp._on_emg_data_ready: the oldest queued data_ready signal
OnEmgDataReadyUpTo(maxSamples) ==
    /\ signals # <<>>
    /\ LET sig == Head(signals)
       IN  IF RecorderAccepts(session_controller, app, sig.features)
           THEN LET info  == RecorderGestureInfo(session_controller, sig)
                    name  == info.gesture_name
                    clean == CleanFeatures(sig.features, sig.raw_data)
                IN  /\ Len(dataset_manager.dataset) < maxSamples
                    /\ dataset_manager' =
                           add_sample(dataset_manager, clean,
                                      GestureMapping(name), name,
                                      info.cycle_number)
                    /\ IF AddSampleAccepts(clean)
                       THEN /\ Called(increment_sample_count(session_controller))
                            /\ emitted_under' =
                                   Append(emitted_under, sig.emit_info.gesture_name)
                       ELSE UNCHANGED <<session_controller, app, stopped,
                                        emitted_under>>
           ELSE UNCHANGED <<session_controller, app, stopped, recSide>>
    /\ signals' = Tail(signals)
    /\ UNCHANGED <<now, processor, device_next, worker,
                   sd_dataset_manager, windows, logger, observing>>

\* the same, with the model's bound on the dataset
OnEmgDataReady == OnEmgDataReadyUpTo(MaxSamples)

AppNext ==
    \/ AppAdvance
    \/ \E k \in 1..MaxFrames : ReaderReadLine(DataLine(k))
    \/ \E opened \in BOOLEAN : WorkerConnect(opened)
    \/ WorkerProcessFrame
    \/ WorkerEmit
    \/ WorkerCleanup
    \/ \E v \in SpinInputs : StartAutoSession(v[1], v[2], v[3])
    \/ AppStopSession
    \/ OnEmgDataReady
    \/ Update

SpecApp == Init /\ [][AppNext]_vars

(***************************************************************************)
(* The recorder under every public call of the controller.  The worker's   *)
(* turn (process_frame, then emit) is taken in one step here.              *)
(***************************************************************************)
\* EMGMonitorWorker.run: one turn of the loop, process_frame() to emit
WorkerPoll ==
    /\ worker.pc = "process"
    /\ Len(signals) < MaxInFlight
    /\ signals' = Append(signals,
           [ raw_data     |-> get_latest_emg_data(processor),
             features     |-> get_emg_features(processor),
             is_connected |-> is_sensor_connected(processor, now),
             emit_info    |-> GetCurrentGestureInfo(session_controller) ])
    /\ worker' = [worker EXCEPT
                    !.features = get_emg_features(processor),
                    !.is_connected = is_sensor_connected(processor, now)]
    /\ UNCHANGED <<now, mainSide, processor, device_next, sd_dataset_manager,
                   windows, logger>>

RecNext ==
    \/ Advance
    \/ \E k \in 1..MaxFrames : ReaderReadLine(DataLine(k))
    \/ WorkerConnect(TRUE)
    \/ WorkerPoll
    \/ OnEmgDataReady
    \/ \E v \in SpinInputs : StartAutoSession(v[1], v[2], v[3])
    \/ AppStopSession
    \/ Update
    \/ \E a \in AppConfigInputs : ConfigureSession(a[1], a[2], a[3], a[4], a[5])
    \/ StartSession
    \/ StopSession
    \/ PauseSession
    \/ ResumeSession

SpecRec == Init /\ [][RecNext]_vars

(***************************************************************************)
(* The capture path alone, from the reader to the dataset, during one      *)
(* session that nobody stops: several frames, several signals in flight,   *)
(* several samples.                                                        *)
(***************************************************************************)
\* process_frame() in the two reads get_emg_features makes of the latest
\* frame: the test "if not self.last_emg_data" ...
WorkerTestCache ==
    /\ worker.pc = "process"
    /\ worker' = IF IsEmptyDict(processor.last_emg_data)
                 THEN [worker EXCEPT
                         !.pc = "emit",
                         !.features = FeaturesOf(0),
                         !.is_connected = is_sensor_connected(processor, now)]
                 ELSE [worker EXCEPT !.pc = "snapshot"]
    /\ UNCHANGED <<now, mainSide, processor, device_next, signals,
                   sd_dataset_manager, windows, logger>>

\* ... and "emg_data = self.last_emg_data", whose fields are then read from
\* the local reference; the reader may have replaced the frame in between
WorkerSnapshot ==
    /\ worker.pc = "snapshot"
    /\ worker' = [worker EXCEPT
                    !.pc = "emit",
                    !.features = get_emg_features(processor),
                    !.is_connected = is_sensor_connected(processor, now)]
    /\ UNCHANGED <<now, mainSide, processor, device_next, signals,
                   sd_dataset_manager, windows, logger>>

OrdNext ==
    \/ Advance
    \/ \E k \in 1..OrdFrames : ReaderReadLineUpTo(DataLine(k), OrdFrames)
    \/ WorkerConnect(TRUE)
    \/ WorkerProcessFrame
    \/ WorkerTestCache
    \/ WorkerSnapshot
    \/ WorkerEmitUpTo(OrdInFlight)
    \/ OnEmgDataReadyUpTo(OrdSamples)
    \/ \E v \in SpinInputs : StartAutoSession(v[1], v[2], v[3])
    \/ Update

SpecOrd == Init /\ [][OrdNext]_vars

(***************************************************************************)
(* The processor and the controller in the hands of one owner, as          *)
(* test_esp32_connection and example_usage hold them: the owner connects,  *)
(* cleans up and stops as often as it likes.                               *)
(***************************************************************************)
\* connect(), once no earlier reading thread is still running
Connect(opened) ==
    /\ processor.reading_thread # "alive"
    /\ processor' = connect(processor, opened)
    /\ UNCHANGED <<now, mainSide, device_next, worker, signals,
                   sd_dataset_manager, windows, logger>>

\* cleanup() or disconnect()
Disconnect ==
    /\ processor' = disconnect(processor)
    /\ UNCHANGED <<now, mainSide, device_next, worker, signals,
                   sd_dataset_manager, windows, logger>>

\* _read_serial_data: one turn of the loop in which the read raises
ReaderFault ==
    /\ processor.reading_thread = "alive"
    /\ ~processor.stop_reading /\ processor.connected
    /\ processor' = read_fault(processor)
    /\ UNCHANGED <<now, mainSide, device_next, worker, signals,
                   sd_dataset_manager, windows, logger>>

EmgNext ==
    \/ Advance
    \/ \E opened \in BOOLEAN : Connect(opened)
    \/ Disconnect
    \/ \E k \in 1..MaxFrames : ReaderReadLine(DataLine(k))
    \/ \E line \in OtherLines : ReaderReadLine(line)
    \/ ReaderFault
    \/ ReaderExit
    \/ \E a \in AppConfigInputs : ConfigureSession(a[1], a[2], a[3], a[4], a[5])
    \/ StartSession
    \/ StopSession
    \/ Update

SpecEmg == InitObserved /\ [][EmgNext]_vars

\* the same under a fair scheduler: a turn of _read_serial_data ends (the
\* read has a timeout, the sleeps are finite), so a reading thread whose
\* loop condition stays false reaches the test and leaves the loop
SpecEmgFair == SpecEmg /\ WF_vars(ReaderExit)

(***************************************************************************)
(* The frame queue with no consumer.  The owner connects, disconnects and  *)
(* connects again; a reading thread that outlives the bounded join of      *)
(* disconnect() goes on reading beside the new one.  The test of full()    *)
(* and the put() that follows are two steps of a thread.                   *)
(***************************************************************************)
\* connect() after a disconnect() whose join timed out
ConnectAgain ==
    /\ processor.reading_thread = "alive"
    /\ ~processor.connected
    /\ processor.orphans < MaxOrphans
    /\ processor' = connect(processor, TRUE)
    /\ UNCHANGED <<now, mainSide, device_next, worker, signals,
                   sd_dataset_manager, windows, logger>>

\* a reading thread that is not inside put() parses the next data line
QueueReaderParse ==
    /\ ~processor.stop_reading /\ processor.connected
    /\ Len(processor.putting) + processor.blocked < LiveReaders(processor)
    /\ device_next <= QueueFrames
    /\ processor' = parse_data_line(processor, device_next, now)
    /\ device_next' = device_next + 1
    /\ UNCHANGED <<now, mainSide, worker, signals, sd_dataset_manager, windows, logger>>

\* a reading thread that passed the test calls put()
QueueReaderPut ==
    /\ \E i \in 1..Len(processor.putting) : processor' = queue_put(processor, i)
    /\ UNCHANGED <<now, mainSide, device_next, worker, signals,
                   sd_dataset_manager, windows, logger>>

QueueNext ==
    \/ Connect(TRUE)
    \/ Disconnect
    \/ ConnectAgain
    \/ ReaderExit
    \/ QueueReaderParse
    \/ QueueReaderPut

\* after connect() and QueueHeld valid frames read by the one reading thread
InitQueue ==
    /\ now = 0
    /\ session_controller = NewController
    /\ dataset_manager = NewDatasetManager
    /\ sd_dataset_manager = NewDatasetManager
    /\ processor = [connect(NewProcessor, TRUE) EXCEPT
                       !.data_queue = [k \in 1..QueueHeld |-> Frame(k)],
                       !.last_emg_data = Frame(QueueHeld),
                       !.last_detection_time = 0]
    /\ device_next = QueueHeld + 1
    /\ worker = [pc |-> "connect", features |-> EmptyDict, is_connected |-> FALSE]
    /\ signals = <<>>
    /\ app = NewApp
    /\ stopped = FALSE
    /\ emitted_under = <<>>
    /\ windows = <<>>
    /\ logger = NewLogger
    /\ observing = FALSE

SpecQueue == InitQueue /\ [][QueueNext]_vars

(***************************************************************************)
(* A session that is paused and resumed: configure, start, then ticks of   *)
(* the clock, update(), pause_session() and resume_session().  windows     *)
(* keeps every stay in RECORDING with the time it began and ended.         *)
(***************************************************************************)
PauseConfigs ==
    { <<g, 0, PauseDuration, r, 1>> : g \in GestureLists, r \in {0, MaxRest} }

\* a stay in RECORDING begins at t
OpenWindow(w, c, t) ==
    LET info == GetCurrentGestureInfo(c)
    IN  Append(w, [ label |-> info.gesture_name, cycle |-> info.cycle_number,
                    from |-> t, to |-> NoAttr ])

\* the stay in RECORDING, if there is one, ends at t
CloseWindow(w, t) ==
    IF w # <<>> /\ w[Len(w)].to = NoAttr
    THEN [w EXCEPT ![Len(w)].to = t]
    ELSE w

\* the windows after a call that took the controller from c to c1 at t
WindowsAfter(w, c, c1, t) ==
    IF c.state = "recording" /\ c1.state # "recording" THEN CloseWindow(w, t)
    ELSE IF c.state # "recording" /\ c1.state = "recording" THEN OpenWindow(w, c1, t)
    ELSE w

PauseConfigure(g, series, dur, rest, cycles) ==
    /\ session_controller.state = "idle"
    /\ ConfigureSession(g, series, dur, rest, cycles)

TimedUpdate ==
    /\ Called(update(session_controller, now))
    /\ windows' = WindowsAfter(windows, session_controller, session_controller', now)
    /\ logger' = logger
    /\ UNCHANGED <<now, emgSide, recSide, sd_dataset_manager>>

TimedPause ==
    /\ Len(windows) <= MaxPauses
    /\ Called(pause_session(session_controller))
    /\ windows' = WindowsAfter(windows, session_controller, session_controller', now)
    /\ logger' = logger
    /\ UNCHANGED <<now, emgSide, recSide, sd_dataset_manager>>

TimedResume ==
    /\ Called(resume_session(session_controller))
    /\ windows' = WindowsAfter(windows, session_controller, session_controller', now)
    /\ logger' = logger
    /\ UNCHANGED <<now, emgSide, recSide, sd_dataset_manager>>

PauseNext ==
    \/ SchedAdvance
    \/ \E a \in PauseConfigs : PauseConfigure(a[1], a[2], a[3], a[4], a[5])
    \/ SchedStart
    \/ TimedUpdate
    \/ TimedPause
    \/ TimedResume

SpecPause == InitObserved /\ [][PauseNext]_vars

\* the session of SpecPause, which may also be stopped and started again
RestartNext ==
    \/ PauseNext
    \/ StopSession

SpecRestart == InitObserved /\ [][RestartNext]_vars

(***************************************************************************)
(* The same undisturbed session with the instant of every entry into       *)
(* COUNTDOWN noted in windows, as seen from outside by the state changes.  *)
(***************************************************************************)
\* windows after a call made at t that took the controller from c to c1
CountdownNoted(w, c, c1, t) ==
    IF c.state # "countdown" /\ c1.state = "countdown" THEN <<t>> ELSE w

CountStart ==
    /\ session_controller.state = "idle"
    /\ ~ConfigEmpty(session_controller)
    /\ Called(start_session(session_controller))
    /\ windows' = CountdownNoted(windows, session_controller, session_controller', now)
    /\ logger' = logger
    /\ UNCHANGED <<now, emgSide, recSide, sd_dataset_manager>>

CountUpdate ==
    /\ Called(update(session_controller, now))
    /\ windows' = CountdownNoted(windows, session_controller, session_controller', now)
    /\ logger' = logger
    /\ UNCHANGED <<now, emgSide, recSide, sd_dataset_manager>>

CountNext ==
    \/ SchedAdvance
    \/ \E a \in PauseConfigs : PauseConfigure(a[1], a[2], a[3], a[4], a[5])
    \/ CountStart
    \/ CountUpdate

SpecCount == InitObserved /\ [][CountNext]_vars


(***************************************************************************)
(* Properties.                                                             *)
(***************************************************************************)
Last(seq) == seq[Len(seq)]

Numbered(dm) == \A i \in 1..Len(dm.dataset) : dm.dataset[i].sample_number = i

\* C3 (monotonic numbering): after any sequence of start_new_session,
\* add_sample and clear_dataset calls, the i-th sample of the dataset has
\* sample_number i, in both dataset managers.
C3_MonotonicNumbering ==
    /\ Numbered(dataset_manager)
    /\ Numbered(sd_dataset_manager)

\* both datasets hold DsMaxSamples samples, and the system_data one holds
\* samples of two sessions
C3_Witness ==
    /\ Len(dataset_manager.dataset) = DsMaxSamples
    /\ Len(sd_dataset_manager.dataset) = DsMaxSamples
    /\ sd_dataset_manager.session_info.total_samples = 1
    /\ sd_dataset_manager.dataset[1].session_id
         # Last(sd_dataset_manager.dataset).session_id

\* the step appends the first sample since start_new_session
FirstSampleOfSession(dm, dm1) ==
    /\ dm.session_info.current_session_id # NoAttr
    /\ dm.session_info.total_samples = 0
    /\ Len(dm1.dataset) = Len(dm.dataset) + 1

\* C4 (counter reset at session start): in both dataset managers the first
\* sample added after start_new_session has sample_number 1.
C4_FirstSampleIsOne ==
    [][ /\ FirstSampleOfSession(dataset_manager, dataset_manager')
           => Last(dataset_manager'.dataset).sample_number = 1
        /\ FirstSampleOfSession(sd_dataset_manager, sd_dataset_manager')
           => Last(sd_dataset_manager'.dataset).sample_number = 1 ]_vars

\* the recordings a configuration plans: gestures times cycles
PlannedWindows(c) ==
    Len(c.config.selected_gestures) * c.total_cycles_user_defined

\* the k-th recording (from 1) of the plan, as <<label, cycle>>
ExpectedWindow(c, k) ==
    LET n == Len(c.config.selected_gestures)
    IN  << c.config.selected_gestures[((k - 1) % n) + 1], ((k - 1) \div n) + 1 >>

\* C5 (schedule completion): a session of n gestures and c cycles that runs
\* undisturbed enters RECORDING n*c times; the k-th recording (from 0) is of
\* gesture L[k mod n] in cycle k div n + 1; COMPLETED is entered only after
\* all n*c of them.
C5_ScheduleCompletion ==
    LET c == session_controller
    IN  /\ Len(windows) <= PlannedWindows(c)
        /\ \A k \in 1..Len(windows) : windows[k] = ExpectedWindow(c, k)
        /\ c.state = "completed" => Len(windows) = PlannedWindows(c)

\* the session [A, B] x 2 has completed after the recordings A, B, A, B
C5_Witness ==
    /\ session_controller.state = "completed"
    /\ session_controller.config.selected_gestures = <<"CERRAR_MANO", "PINZA">>
    /\ session_controller.total_cycles_user_defined = 2
    /\ windows = << <<"CERRAR_MANO", 1>>, <<"PINZA", 1>>,
                    <<"CERRAR_MANO", 2>>, <<"PINZA", 2>> >>

\* C6 (progress 100 only when completed): whenever get_session_status
\* reports progress_percentage = 100, the state is COMPLETED.
C6_FullProgressOnlyCompleted ==
    ( /\ ~StatusRaises(session_controller)
      /\ ProgressPercentage(session_controller) = 100 )
    => session_controller.state = "completed"

\* C7 (completed means progress 100): whenever the state is COMPLETED,
\* get_session_status reports progress_percentage = 100.
C7_CompletedHasFullProgress ==
    session_controller.state = "completed"
    => ProgressPercentage(session_controller) = 100

States == { "idle", "preparing", "countdown", "recording", "resting",
            "paused", "completed", "error" }

\* the _change_state calls of one public call, oldest first
StateChanges(fired) ==
    LET IsChange(n) == n[1] = "state_change"
    IN  SelectSeq(fired, IsChange)

\* the same, as the set of edges <<old, new>>
Edges(fired) ==
    LET sc == StateChanges(fired)
    IN  { <<sc[i][2], sc[i][3]>> : i \in 1..Len(sc) }

\* the changes of the call lead from the state before it to the one after
IsPath(c, c1) ==
    LET sc == StateChanges(c1.fired)
    IN  IF sc = <<>>
        THEN c1.state = c.state
        ELSE /\ sc[1][2] = c.state
             /\ sc[Len(sc)][3] = c1.state
             /\ \A i \in 1..(Len(sc) - 1) : sc[i][3] = sc[i + 1][2]

PreparingEdges == { <<"preparing", "countdown">>, <<"preparing", "completed">> }
StartEdges     == { <<"idle", "preparing">> } \cup PreparingEdges
TickEdges      == { <<"countdown", "recording">>, <<"recording", "resting">>,
                    <<"resting", "preparing">> } \cup PreparingEdges
PauseEdges     == { <<s, "paused">> : s \in {"countdown", "recording", "resting"} }
ResumeEdges    == { <<"paused", "preparing">> } \cup PreparingEdges
StopEdges      == { <<s, "idle">> : s \in States }
ErrorEdges     == { <<s, "error">> : s \in States }

\* the edges of the table, call by call; startEdges are those of start
Conforms(startEdges) ==
    LET c  == session_controller
        c1 == session_controller'
        e  == Edges(c1.fired)
    IN  /\ c1 # c => IsPath(c, c1)
        /\ e \subseteq startEdges \/ ~StartSession
        /\ e \subseteq StopEdges \/ ~StopSession
        /\ e \subseteq PauseEdges \/ ~PauseSession
        /\ e \subseteq ResumeEdges \/ ~ResumeSession
        /\ e \subseteq TickEdges \/ ~Update
        /\ e = {} \/ ~IncrementSampleCount
        /\ \A a \in ConfigInputs :
               \/ e \subseteq (IF ConfigRejected(a[1], a[3]) THEN ErrorEdges ELSE {})
               \/ ~ConfigureSession(a[1], a[2], a[3], a[4], a[5])

\* C8 (transition conformance), as stated: every change of state is an edge
\* of the table, and ERROR is entered only by configure_session with
\* invalid input.
C8_AsStated == [][Conforms(StartEdges)]_vars

\* C8, amended: every change of state is an edge of the table, and ERROR is
\* entered only by configure_session with invalid input or by start_session
\* called in a state other than IDLE or with no configuration stored.
C8_TransitionConformance ==
    [][Conforms(StartEdges \cup
                (IF StartRefused(session_controller) THEN ErrorEdges ELSE {}))]_vars

\* start_session, called during a recording, has put the controller in ERROR
C8_Witness ==
    /\ session_controller.state = "error"
    /\ session_controller.fired =
           << <<"state_change", "recording", "error">>,
              <<"error", "No se puede iniciar sesion en estado">> >>

\* the step appends a sample to the dataset of the capture application
Appends == Len(dataset_manager'.dataset) = Len(dataset_manager.dataset) + 1

\* C1 (label fidelity): every sample the recorder appends carries the
\* gesture label, label id and cycle number that the controller's cursor
\* designates at the instant the recorder handles the frame, whatever was
\* designated when the worker emitted it.
C1_LabelFidelity ==
    [][ Appends =>
          LET info   == GetCurrentGestureInfo(session_controller)
              sample == Last(dataset_manager'.dataset)
          IN  /\ sample.gesture_name = info.gesture_name
              /\ sample.series_number = info.cycle_number
              /\ sample.gesture_id = GestureMapping(info.gesture_name) ]_vars

\* a frame emitted under one label was stored under the next one
C1_Witness ==
    /\ Len(dataset_manager.dataset) = 1
    /\ emitted_under = <<"CERRAR_MANO">>
    /\ dataset_manager.dataset[1].gesture_name = "PINZA"
    /\ dataset_manager.dataset[1].gesture_id = 2

\* the step adds no sample and raises no sample counter
NoGrowth ==
    /\ Len(dataset_manager'.dataset) <= Len(dataset_manager.dataset)
    /\ session_controller'.session_stats.total_samples
         <= session_controller.session_stats.total_samples
    /\ session_controller'.samples_captured_this_recording
         <= session_controller.samples_captured_this_recording

\* C2 (no leakage outside RECORDING): under any sequence of configure,
\* start, update, pause, resume and stop calls, a step taken while the
\* state is not RECORDING, the handling of a frame included, appends no
\* sample and increments no sample counter.
C2_NoLeakage ==
    [][ session_controller.state # "recording" => NoGrowth ]_vars

\* a frame parsed, emitted and handled after the last recording has ended
\* was dropped
C2_Witness ==
    /\ session_controller.state = "completed"
    /\ app.auto_capture_active
    /\ processor.last_detection_time = now
    /\ ~IsEmptyDict(worker.features)
    /\ signals = <<>>
    /\ dataset_manager.dataset = <<>>

\* C9 (stop): stop_session, called in any state, leaves the controller in
\* IDLE when it returns, and from then until RECORDING is entered again no
\* sample is appended and no sample counter grows.
C9_StopStopsRecording ==
    [][ /\ stopped' => \/ session_controller'.state = "idle"
                        \/ ~(StopSession \/ AppStopSession)
        /\ stopped => NoGrowth ]_vars

\* the session was stopped during its first recording, after a sample had
\* been stored, and the frames emitted since have been handled
C9_Witness ==
    /\ stopped
    /\ session_controller.state = "idle"
    /\ session_controller.session_stats.total_samples = 1
    /\ \A g \in DOMAIN session_controller.session_stats.gestures_completed :
           session_controller.session_stats.gestures_completed[g] = 0
    /\ Len(dataset_manager.dataset) = 1
    /\ app.auto_capture_active
    /\ signals = <<>>
    /\ now > dataset_manager.dataset[1].session_id * TicksPerSec

\* C10 (stop leaves the ingestor alone): the stop button and stop_session
\* change neither the processor (its connected flag, reader thread, latest
\* frame, liveness clock) nor the worker, and the start that follows finds
\* them as they were.
C10_StopLeavesIngestor ==
    [][ \/ /\ processor' = processor
              /\ worker' = worker
        \/ ~( \/ StopSession
              \/ AppStopSession
              \/ StartSession
              \/ \E v \in SpinInputs : StartAutoSession(v[1], v[2], v[3]) ) ]_vars

\* a session was stopped and the next one has started over the same open
\* link, with the frame cached before the stop
C10_Witness ==
    /\ stopped
    /\ session_controller.state = "countdown"
    /\ processor.connected
    /\ processor.serial_open
    /\ processor.reading_thread = "alive"
    /\ ~IsEmptyDict(processor.last_emg_data)

\* C11 (idempotent stop and disconnect): whatever the controller and the
\* processor have been through, a second stop_session leaves every field of
\* the controller as the first left it and fires no state-change
\* notification, and a second disconnect leaves every field of the
\* processor as the first left it.
C11_IdempotentStop ==
    LET c1 == stop_session(session_controller)
        c2 == stop_session(c1)
        p1 == disconnect(processor)
        p2 == disconnect(p1)
    IN  /\ Entering(c2) = Entering(c1)
        /\ c2.fired = <<>>
        /\ p2 = p1

\* a session that was running has been stopped, the stop after it fired
\* nothing, and the link that was open is closed with its thread still alive
C11_Witness ==
    /\ stopped
    /\ session_controller.state = "idle"
    /\ session_controller.session_stats.start_time # NoAttr
    /\ session_controller.fired = <<>>
    /\ processor.stop_reading /\ ~processor.connected /\ ~processor.serial_open
    /\ processor.reading_thread = "alive"
    /\ processor.last_emg_data # EmptyDict

\* every state_change of the call that produced c1 ends in the state s
AllChangesTo(c1, s) ==
    \A e \in Edges(c1.fired) : e[2] = s

\* C12 (ERROR is absorbing until stop): a call made while the controller is
\* in ERROR leaves it in ERROR, passing through no other state, unless the
\* call is stop_session, which leaves it in IDLE.
C12_ErrorAbsorbing ==
    [][ \/ session_controller.state # "error"
        \/ /\ session_controller'.state = "error"
           /\ AllChangesTo(session_controller', "error")
        \/ /\ session_controller'.state = "idle"
           /\ StopSession ]_vars

\* start_session, called in ERROR with a valid configuration stored, has
\* left the controller in ERROR
C12_Witness ==
    /\ session_controller.state = "error"
    /\ ~ConfigEmpty(session_controller)
    /\ session_controller.fired =
           << <<"state_change", "error", "error">>,
              <<"error", "No se puede iniciar sesion en estado">> >>

\* the step is a call that the controller refuses with an error: start_session
\* outside IDLE or unconfigured, or configure_session with invalid input
RefusedCall ==
    \/ StartRefused(session_controller) /\ StartSession
    \/ \E a \in InvalidConfigs : ConfigureSession(a[1], a[2], a[3], a[4], a[5])

\* C13 (COMPLETED is terminal), as stated: a call made while the controller
\* is COMPLETED leaves it COMPLETED, unless the call is stop_session, which
\* leaves it in IDLE.
C13_AsStated ==
    [][ \/ session_controller.state # "completed"
        \/ session_controller'.state = "completed"
        \/ /\ session_controller'.state = "idle"
           /\ StopSession ]_vars

\* C13, amended: a call made while the controller is COMPLETED leaves it
\* COMPLETED with no change of state at all, unless the call is stop_session,
\* which leaves it in IDLE, or a call the controller refuses (start_session,
\* or configure_session with invalid input), which leaves it in ERROR.
C13_CompletedTerminal ==
    [][ \/ session_controller.state # "completed"
        \/ session_controller' = session_controller
        \/ /\ session_controller'.state = "completed"
           /\ Edges(session_controller'.fired) = {}
           /\ ~RefusedCall
        \/ /\ session_controller'.state = "idle"
           /\ StopSession
        \/ /\ session_controller'.state = "error"
           /\ RefusedCall ]_vars

\* start_session, called on a completed session, has been refused
C13_Witness ==
    /\ session_controller.state = "error"
    /\ session_controller.session_stats.start_time # NoAttr
    /\ session_controller.fired =
           << <<"state_change", "completed", "error">>,
              <<"error", "No se puede iniciar sesion en estado">> >>

\* the on_error calls of one public call, oldest first
ErrorNotes(fired) ==
    LET IsError(n) == n[1] = "error"
    IN  SelectSeq(fired, IsError)

\* what the claim requires of a call that produced c1 and returned r
RejectedLoudly(c1, r) ==
    /\ r = FALSE
    /\ c1.state = "error"
    /\ Len(ErrorNotes(c1.fired)) = 1
    /\ ErrorNotes(c1.fired)[1][2] # ""
    /\ Edges(c1.fired) \subseteq ErrorEdges /\ Edges(c1.fired) # {}

\* C14 (invalid configuration is rejected loudly): configure_session with an
\* empty label list, or with a duration below 1 or above 60, returns False,
\* leaves the controller in ERROR after a notified change of state, and
\* calls on_error exactly once with a non-empty message.
C14_InvalidConfigRejected ==
    [][ \A a \in InvalidConfigs :
            \/ RejectedLoudly(session_controller',
                              configure_session_returns(a[1], a[3]))
            \/ ~ConfigureSession(a[1], a[2], a[3], a[4], a[5]) ]_vars

\* a duration out of bounds has been rejected on a controller that was
\* paused in the middle of a session
C14_Witness ==
    /\ session_controller.state = "error"
    /\ session_controller.fired =
           << <<"state_change", "paused", "error">>,
              <<"error", "Duracion por gesto debe estar entre 1 y 60 segundos">> >>

\* configuration, cursor, cycle target and statistics of c1 are those of c
SessionDataKept(c, c1) ==
    /\ c1.config = c.config
    /\ c1.current_gesture_index = c.current_gesture_index
    /\ c1.current_series = c.current_series
    /\ c1.current_cycle = c.current_cycle
    /\ c1.total_cycles_user_defined = c.total_cycles_user_defined
    /\ c1.session_stats = c.session_stats

\* C15 (an invalid configuration changes no session data): a call of
\* configure_session that returns False leaves the stored configuration, the
\* cursor (label index, series, cycle), the cycle target and the session
\* statistics exactly as they were before the call.
C15_RejectedConfigKeepsData ==
    [][ \A a \in ConfigInputs :
            \/ configure_session_returns(a[1], a[3])
            \/ SessionDataKept(session_controller, session_controller')
            \/ ~ConfigureSession(a[1], a[2], a[3], a[4], a[5]) ]_vars

\* an empty label list has been rejected during the second recording of a
\* session that has a sample counted
C15_Witness ==
    /\ session_controller.state = "error"
    /\ session_controller.current_gesture_index > 0
    /\ session_controller.session_stats.total_samples > 0
    /\ session_controller.fired =
           << <<"state_change", "recording", "error">>,
              <<"error", "No se seleccionaron gestos para capturar">> >>

\* a session has been started and has not ended
Running(c) ==
    c.state \in {"preparing", "countdown", "recording", "resting", "paused"}

\* the cursor of c is not after the cursor of c1, in the order
\* (current_cycle, current_gesture_index)
CursorLeq(c, c1) ==
    \/ c.current_cycle < c1.current_cycle
    \/ /\ c.current_cycle = c1.current_cycle
       /\ c.current_gesture_index <= c1.current_gesture_index

\* C16 (the configuration is immutable while a session runs): no call made
\* between a successful start_session and the end of the session changes
\* the label sequence, the duration, the rest time or the cycle target, and
\* none takes the cursor back.
C16_ConfigImmutable ==
    [][ Running(session_controller) =>
            /\ session_controller'.config = session_controller.config
            /\ session_controller'.total_cycles_user_defined =
                   session_controller.total_cycles_user_defined
            /\ CursorLeq(session_controller, session_controller') ]_vars

\* C17 (the cursor only advances): in the order (current_cycle,
\* current_gesture_index) no call takes the cursor back, except
\* start_session and configure_session, which take it to (0, 0).
C17_CursorAdvances ==
    [][ \/ CursorLeq(session_controller, session_controller')
        \/ /\ session_controller'.current_cycle = 0
           /\ session_controller'.current_gesture_index = 0
           /\ \/ StartSession
              \/ \E a \in ValidConfigs :
                     ConfigureSession(a[1], a[2], a[3], a[4], a[5]) ]_vars

\* a session paused after its first recording has been resumed, and goes on
\* with the second label
C17_Witness ==
    /\ session_controller.state = "countdown"
    /\ session_controller.current_gesture_index = 1
    /\ session_controller.fired =
           << <<"state_change", "paused", "preparing">>,
              <<"gesture_change", "PINZA", 1>>,
              <<"state_change", "preparing", "countdown">> >>

\* the call that took c to c1 and returned r was refused without effect
RefusedQuietly(c, c1, r) ==
    /\ r = FALSE
    /\ c1.fired = <<>>
    /\ Entering(c1) = Entering(c)

\* what the claim requires of pause_session, c to c1
PauseContract(c, c1) ==
    IF c.state \in {"countdown", "recording", "resting"}
    THEN /\ pause_session_returns(c)
         /\ c1.state = "paused"
         /\ StateChanges(c1.fired) = << <<"state_change", c.state, "paused">> >>
    ELSE RefusedQuietly(c, c1, pause_session_returns(c))

\* what the claim requires of resume_session, c to c1
ResumeContract(c, c1) ==
    IF c.state = "paused"
    THEN /\ resume_session_returns(c)
         /\ c1.state \in {"countdown", "completed"}
         /\ StateChanges(c1.fired) =
                << <<"state_change", "paused", "preparing">>,
                   <<"state_change", "preparing", c1.state>> >>
    ELSE RefusedQuietly(c, c1, resume_session_returns(c))

\* C18 (pause and resume): pause_session returns True and leaves PAUSED
\* exactly from COUNTDOWN, RECORDING and RESTING; resume_session returns True
\* exactly from PAUSED, passing through PREPARING into COUNTDOWN, or into
\* COMPLETED; in every other state each returns False and changes nothing.
C18_PauseResume ==
    [][ /\ PauseContract(session_controller, session_controller')
           \/ ~PauseSession
        /\ ResumeContract(session_controller, session_controller')
           \/ ~ResumeSession ]_vars

\* a session paused during the rest after its last recording has been
\* resumed, and completed
C18_Witness ==
    /\ session_controller.state = "completed"
    /\ session_controller.fired =
           << <<"state_change", "paused", "preparing">>,
              <<"state_change", "preparing", "completed">>,
              <<"session_complete">> >>

\* the time the label of the cursor has spent in RECORDING, in this cycle,
\* during the stays that have ended
RECURSIVE RecordedBefore(_, _)
RecordedBefore(w, info) ==
    IF w = <<>> THEN 0
    ELSE LET e == w[Len(w)]
             rest == RecordedBefore(SubSeq(w, 1, Len(w) - 1), info)
         IN  IF /\ e.to # NoAttr
                /\ e.label = info.gesture_name
                /\ e.cycle = info.cycle_number
             THEN rest + (e.to - e.from)
             ELSE rest

\* C19 (pause and resume preserve the elapsed time): an update() that finds
\* the controller in RECORDING ends the recording as soon as the time the
\* label has been recorded, before and after any pause, reaches
\* duration_per_gesture.
C19_PausePreservesElapsed ==
    [][ \/ session_controller.state # "recording"
        \/ session_controller'.state # "recording"
        \/ RecordedBefore(windows, GetCurrentGestureInfo(session_controller))
             + (now - session_controller.recording_start_time)
             < session_controller.config.duration_per_gesture * TicksPerSec
        \/ ~TimedUpdate ]_vars

\* C20 (notifications are exact and ordered), as stated: the on_state_change
\* calls of a public call lead, pair by pair, from the state before the call
\* to the state after it, a call that notifies nothing leaves the state as
\* it was, and every pair has an old state that differs from the new one.
C20_AsStated ==
    [][ \/ session_controller' = session_controller
        \/ /\ IsPath(session_controller, session_controller')
           /\ \A e \in Edges(session_controller'.fired) : e[1] # e[2] ]_vars

\* C20, amended: the same, except that a call the controller refuses while
\* it is in ERROR notifies the pair (ERROR, ERROR).
C20_Notifications ==
    [][ \/ session_controller' = session_controller
        \/ /\ IsPath(session_controller, session_controller')
           /\ \A e \in Edges(session_controller'.fired) :
                  \/ e[1] # e[2]
                  \/ /\ e = <<"error", "error">>
                     /\ session_controller.state = "error"
                     /\ RefusedCall ]_vars

\* an empty label list has been refused by a controller already in ERROR,
\* which notified (ERROR, ERROR)
C20_Witness ==
    /\ session_controller.state = "error"
    /\ session_controller.fired =
           << <<"state_change", "error", "error">>,
              <<"error", "No se seleccionaron gestos para capturar">> >>

\* the controller without what the device can influence: the two sample
\* counters (and the record of the callbacks of the last call)
WithoutSamples(c) ==
    [c EXCEPT !.fired = <<>>,
              !.samples_captured_this_recording = 0,
              !.session_stats.total_samples = 0]

\* two results of a call agree on every field but the sample counters, and
\* went through the same states
SameCourse(c1, c2) ==
    /\ WithoutSamples(c1) = WithoutSamples(c2)
    /\ StateChanges(c1.fired) = StateChanges(c2.fired)

\* every control call takes c, and c without its sample counts, the same way
ControlIgnoresSamples(c, t) ==
    /\ SameCourse(start_session(c), start_session(WithoutSamples(c)))
    /\ SameCourse(stop_session(c), stop_session(WithoutSamples(c)))
    /\ SameCourse(pause_session(c), pause_session(WithoutSamples(c)))
    /\ SameCourse(resume_session(c), resume_session(WithoutSamples(c)))
    /\ SameCourse(update(c, t), update(WithoutSamples(c), t))
    /\ \A a \in AppConfigInputs :
           SameCourse(configure_session(c, a[1], a[2], a[3], a[4], a[5]),
                      configure_session(WithoutSamples(c), a[1], a[2], a[3], a[4], a[5]))

\* the step is taken by the device, the reader, the worker or the recorder
DeviceStep ==
    \/ \E k \in 1..MaxFrames : ReaderReadLine(DataLine(k))
    \/ WorkerConnect(TRUE)
    \/ WorkerPoll
    \/ OnEmgDataReady

\* C21 (the device never forces a transition): a step of the device side
\* changes no field of the controller but the sample counters, and the
\* outcome of every control call (state, cursor, every other field, and the
\* states passed through) does not depend on the sample counters; so the
\* session states and cursor values are a function of the control calls and
\* the clock alone.
C21_DeviceIndependence ==
    /\ [](ControlIgnoresSamples(session_controller, now))
    /\ [][ \/ WithoutSamples(session_controller') = WithoutSamples(session_controller)
           \/ ~DeviceStep ]_vars

\* a sample was counted during a recording, and the recording has ended on
\* the clock
C21_Witness ==
    /\ session_controller.state = "resting"
    /\ session_controller.session_stats.total_samples > 0
    /\ session_controller.samples_captured_this_recording > 0
    /\ Len(dataset_manager.dataset) > 0

\* the valid frames the reader has parsed so far
FramesParsed == device_next - 1

\* C22 (one sample per frame): the samples appended during the recordings
\* of a session are never more than the valid frames the processor has
\* parsed; with no valid frame parsed there is no sample.
C22_OneSamplePerFrame ==
    Len(dataset_manager.dataset) <= FramesParsed

\* the frame behind a sample: frame k carries k in every field, and a
\* sample made with no frame parsed carries 0
FrameBehind(sample) == sample.features.esp32_timestamp

\* C23 (end-to-end ordering): of two samples of the dataset, the earlier one
\* was made from a frame parsed no later than the frame of the later one,
\* however the reader, the worker and the main thread interleave.
C23_ParseOrder ==
    \A i, j \in 1..Len(dataset_manager.dataset) :
        i < j => FrameBehind(dataset_manager.dataset[i])
                   <= FrameBehind(dataset_manager.dataset[j])

\* the dataset holds a sample of frame 1 and then a sample of frame 2, the
\* second handled while a third signal was in flight
C23_Witness ==
    /\ Len(dataset_manager.dataset) = 2
    /\ FrameBehind(dataset_manager.dataset[1]) = 1
    /\ FrameBehind(dataset_manager.dataset[2]) = 2
    /\ signals # <<>>

\* C24 (liveness): is_sensor_connected() returns true only while the
\* connection is open and a valid data frame has been parsed; a line that
\* is not a valid data frame never makes it true.
C24_LiveOnlyAfterFrame ==
    is_sensor_connected(processor, now)
    => /\ processor.connected
       /\ ~IsEmptyDict(processor.last_emg_data)

C26_QueueDropSafety ==
    /\ Len(processor.data_queue) <= QueueCapacity
    /\ processor.blocked = 0

ReaderStarted ==
    \/ processor'.reading_thread = "alive" /\ processor.reading_thread # "alive"
    \/ processor'.orphans > processor.orphans

\* C27 (connect failure is reported, not retried): a connect() whose port
\* does not open returns False, leaves connected False and starts no reading
\* thread; the worker that made the call never calls connect() again; and a
\* reading thread starts only in a connect() that returns True.
C27_ConnectFailure ==
    [][ /\ \/ ~WorkerConnect(FALSE)
           \/ /\ ~connect_returns(processor, FALSE)
              /\ ~processor'.connected
              /\ ~ReaderStarted
              /\ worker'.pc # "connect"
        /\ worker.pc # "connect" => worker'.pc # "connect"
        /\ ReaderStarted =>
              /\ WorkerConnect(TRUE)
              /\ connect_returns(processor, TRUE)
              /\ processor'.connected ]_vars

\* the worker is about to clean up after a connect() that failed
C27_Witness ==
    /\ worker.pc = "cleanup"
    /\ processor.reading_thread = "none"
    /\ ~processor.connected

IngestedData ==
    <<processor.last_emg_data, processor.last_detection_time, processor.data_queue>>

InSession(c) == c.state \in {"preparing", "countdown", "recording", "resting"}

\* C29 (a started session completes): start_session on a stored
\* configuration enters the session or completes it at once, and a session
\* that update() keeps driving while time advances reaches COMPLETED,
\* with or without samples from the device.
C29_SessionCompletes ==
    /\ [][ \/ ~DoneStart
           \/ InSession(session_controller')
           \/ session_controller'.state = "completed" ]_vars
    /\ InSession(session_controller) ~> (session_controller.state = "completed")

\* a session of two gestures has completed without a single sample
C29_Witness ==
    /\ session_controller.state = "completed"
    /\ session_controller.session_stats.total_samples = 0
    /\ Len(session_controller.config.selected_gestures) = 2
    /\ \A g \in DOMAIN session_controller.session_stats.gestures_completed :
           session_controller.session_stats.gestures_completed[g] = SchedCycles

\* C30 (statistics are derived): in both dataset managers total_samples of
\* session_info equals the number of samples held in the dataset.
C30_TotalIsLength ==
    /\ dataset_manager.session_info.total_samples = Len(dataset_manager.dataset)
    /\ sd_dataset_manager.session_info.total_samples = Len(sd_dataset_manager.dataset)

\* C31 (status queries degrade to a safe default): in every reachable state
\* update() and get_session_status() return without raising, and so does
\* get_session_summary().
C31_QueriesNeverRaise ==
    /\ ~StatusRaises(session_controller)
    /\ ~SummaryRaises(session_controller)

\* the instant at which the present stay in RECORDING began
RecordingEntered == windows[Len(windows)].from

\* C32 (recording duration is measured from state entry): an update() in
\* RECORDING ends the window, going to RESTING, exactly when the time since
\* RECORDING was entered is at least duration_per_gesture, and otherwise
\* stays in RECORDING, whatever ticks came before.
C32_RecordingFromEntry ==
    [][ \/ session_controller.state # "recording"
        \/ ~TimedUpdate
        \/ IF now - RecordingEntered
                 >= session_controller.config.duration_per_gesture * TicksPerSec
           THEN session_controller'.state = "resting"
           ELSE session_controller'.state = "recording" ]_vars

\* a window that was ended by a late tick, after earlier ticks inside it
C32_Witness ==
    /\ session_controller.state = "resting"
    /\ windows # <<>>
    /\ windows[Len(windows)].to - windows[Len(windows)].from
           > session_controller.config.duration_per_gesture * TicksPerSec

\* the instant at which the present stay in COUNTDOWN began
CountdownEntered == windows[1]

\* C33 (countdown duration is measured from state entry): an update() in
\* COUNTDOWN goes to RECORDING exactly when the time since COUNTDOWN was
\* entered is at least rest_time, however late the first tick comes.
C33_CountdownFromEntry ==
    [][ \/ session_controller.state # "countdown"
        \/ ~CountUpdate
        \/ IF now - CountdownEntered >= session_controller.config.rest_time * TicksPerSec
           THEN session_controller'.state = "recording"
           ELSE session_controller'.state = "countdown" ]_vars

\* C34 (full-queue policy): a valid frame parsed while the queue holds its
\* 100 entries is not enqueued and leaves the queue as it was, while the
\* latest frame and the liveness clock are overwritten with the new frame.
\* The handler is applied, at the present and at a later instant, in every
\* reachable state of the processor whose queue is full.
C34_FullQueueDropsNewest ==
    Len(processor.data_queue) = QueueCapacity =>
        \A t \in {now, now + 1} :
            LET whole  == process_serial_line(processor, DataLine(device_next), t)
                tested == parse_data_line(processor, device_next, t)
            IN  /\ whole.data_queue = processor.data_queue
                /\ whole.last_emg_data = Frame(device_next)
                /\ whole.last_detection_time = t
                /\ tested.data_queue = processor.data_queue
                /\ tested.putting = processor.putting
                /\ tested.last_emg_data = Frame(device_next)
                /\ tested.last_detection_time = t

\* a frame was parsed while the queue was full: the latest frame is newer
\* than every queued one, and the oldest entry is still the first
C34_Witness ==
    /\ Len(processor.data_queue) = QueueCapacity
    /\ processor.data_queue[1] = Frame(1)
    /\ processor.blocked = 0
    /\ \A i \in 1..QueueCapacity :
           processor.data_queue[i].timestamp < processor.last_emg_data.timestamp

\* C35 (single writer): at every moment at most one reading thread of the
\* processor runs the read loop.
C35_SingleReader == LiveReaders(processor) <= 1

\* the values come from one parsed frame, or all from no frame
FromOneFrame(features) == \E k \in 0..OrdFrames : features = FeaturesOf(k)

\* C36 (no torn frame): the channel values and the device timestamps of
\* every sample, of every signal in flight and of the worker's last reading
\* come from one single parsed frame, however the reader's replacement of
\* the latest frame interleaves with the worker's reads.
C36_NoTornFrame ==
    /\ \A i \in 1..Len(dataset_manager.dataset) :
           FromOneFrame(dataset_manager.dataset[i].features)
    /\ \A i \in 1..Len(signals) : FromOneFrame(signals[i].features)
    /\ IsEmptyDict(worker.features) \/ FromOneFrame(worker.features)

\* the reader has replaced the latest frame with the worker between its
\* test and its read of the frame, and samples of both frames are held
C36_Witness ==
    /\ worker.pc = "snapshot"
    /\ worker.features = FeaturesOf(1)
    /\ processor.last_emg_data = Frame(OrdFrames)
    /\ Len(dataset_manager.dataset) = OrdSamples
    /\ dataset_manager.dataset[OrdSamples].features = FeaturesOf(1)

\* C37 (a failed start aborts): start_session returns True exactly when the
\* state is IDLE and a configuration is stored; otherwise it returns False,
\* notifies one error and leaves the controller in ERROR.  From ERROR only
\* stop_session leads away, to IDLE, and no sample is counted meanwhile.
C37_FailedStartAborts ==
    [][ /\ \/ session_controller' = session_controller
           \/ ~StartSession
           \/ IF session_controller.state = "idle" /\ ~ConfigEmpty(session_controller)
              THEN /\ start_session_returns(session_controller)
                   /\ session_controller'.state \in {"countdown", "completed"}
                   /\ ErrorNotes(session_controller'.fired) = <<>>
              ELSE /\ ~start_session_returns(session_controller)
                   /\ session_controller'.state = "error"
                   /\ Len(ErrorNotes(session_controller'.fired)) = 1
                   /\ Edges(session_controller'.fired)
                          = { <<session_controller.state, "error">> }
        /\ session_controller.state = "error" =>
              /\ \/ session_controller'.state = "error"
                 \/ session_controller'.state = "idle" /\ StopSession
              /\ session_controller'.session_stats.total_samples
                     <= session_controller.session_stats.total_samples
              /\ session_controller'.samples_captured_this_recording
                     <= session_controller.samples_captured_this_recording ]_vars

\* start_session, called while a recording was running, has ended it in ERROR
C37_Witness ==
    /\ session_controller.state = "error"
    /\ session_controller.fired =
           << <<"state_change", "recording", "error">>,
              <<"error", "No se puede iniciar sesion en estado">> >>

\* the on_recording_end notifications of one call, as <<label, cycle>>
RecordingsEnded(fired) ==
    LET IsEnd(n) == n[1] = "recording_end"
        ends == SelectSeq(fired, IsEnd)
    IN  { <<ends[i][2], ends[i][3]>> : i \in 1..Len(ends) }

\* C38 (recording notifications are paired): the call that takes the
\* controller out of RECORDING notifies on_recording_end for the label and
\* cycle whose on_recording_start opened the recording.
C38_RecordingsPaired ==
    [][ (session_controller.state = "recording"
            /\ session_controller'.state # "recording")
        => LET info == GetCurrentGestureInfo(session_controller)
           IN  <<info.gesture_name, info.cycle_number>>
                   \in RecordingsEnded(session_controller'.fired) ]_vars

RECURSIVE SumOfCounts(_, _)
SumOfCounts(counts, labels) ==
    IF labels = {} THEN 0
    ELSE LET g == CHOOSE x \in labels : TRUE
         IN  counts[g] + SumOfCounts(counts, labels \ {g})

GesturesCompleted(c) ==
    SumOfCounts(c.session_stats.gestures_completed,
                DOMAIN c.session_stats.gestures_completed)

\* C39 (completed equals planned): whenever the controller enters COMPLETED,
\* the sum of gestures_completed over all labels equals
\* total_recordings_planned.
C39_CompletedEqualsPlanned ==
    [][ (session_controller.state # "completed"
            /\ session_controller'.state = "completed")
        => GesturesCompleted(session_controller')
               = session_controller'.session_stats.total_recordings_planned ]_vars

(***************************************************************************)
(* The serial logger of tomardatos.py: lines arrive one at a time until    *)
(* the loop is left by Ctrl+C or an error.                                 *)
(***************************************************************************)
LoggerLine ==
    \E line \in LoggerLines, opens \in BOOLEAN :
        LET l1 == listen_and_log(logger, line, opens)
        IN  /\ logger.pc = "listening"
            /\ l1.opened <= LoggerMaxFiles
            /\ Len(l1.rows) <= LoggerMaxRows
            /\ logger' = l1
            /\ UNCHANGED <<now, mainSide, emgSide, sd_dataset_manager, windows>>

LoggerExit ==
    /\ logger.pc = "listening"
    /\ logger' = listen_and_log_exit(logger)
    /\ UNCHANGED <<now, mainSide, emgSide, sd_dataset_manager, windows>>

LoggerNext == LoggerLine \/ LoggerExit

SpecLogger == Init /\ [][LoggerNext]_vars

\* files open() has returned and close() was never called on
OpenFiles(l) == (1..l.opened) \ l.closed

\* C40 (one CSV file at a time): at most one CSV file is open at a time, a
\* file is opened only when every earlier one has been closed, none is left
\* open once the loop has been left, and a data row is written only while
\* logging is active and only into the file opened last.
C40_OneFileAtATime ==
    /\ [](/\ Cardinality(OpenFiles(logger)) <= 1
          /\ logger.pc = "done" => OpenFiles(logger) = {})
    /\ [][ /\ logger'.opened # logger.opened => OpenFiles(logger) = {}
           /\ logger'.rows # logger.rows =>
                  /\ logger.logging_active
                  /\ logger'.rows[Len(logger'.rows)] = logger.opened ]_vars

=============================================================================
